---- MODULE Spec2Model ----
(***************************************************************************)
(* A model of the JSONC scanner (impl/scanner.ts) and formatter            *)
(* (impl/format.ts) of node-jsonc-parser.                                  *)
(*                                                                         *)
(* Texts are sequences of UTF-16 code units (integers); offsets are        *)
(* 0-based as in the source, so text.charCodeAt(p) is text[p + 1].         *)
(***************************************************************************)
EXTENDS Integers, Sequences, FiniteSets, TLC

VARIABLES
    scanner,        \* the closure state of createScanner(text, ignoreTrivia)
    scanned,        \* history: the tokens returned by scan(), in order
    documentText,   \* format: the text handed to format
    range,          \* format: the range handed to format, or NoRange
    options,        \* format: the FormattingOptions handed to format
    editOperations, \* format: the edit list format returned
    formatted,      \* applyEdits(documentText, editOperations)
    reformatted,    \* applyEdits(formatted, format(formatted))
    pc,             \* position of the format / apply / reformat driver
    modifyPath,     \* modify: the path handed to modify
    modifyValue,    \* modify: the value handed to modify
    stopOffsets,    \* visit: the offsets where a begin callback returns false
    actuals         \* visit: the callbacks invoked, in order

vars == << scanner, scanned, documentText, range, options, editOperations,
           formatted, reformatted, pc, modifyPath, modifyValue, stopOffsets,
           actuals >>

\* the variables of the calls of modify and visit
callVars == << modifyPath, modifyValue, stopOffsets, actuals >>

-----------------------------------------------------------------------------
(* CharacterCodes *)

lineFeed == 10
carriageReturn == 13
space == 32
tab == 9
digit0 == 48
digit9 == 57
A == 65
F == 70
a == 97
b == 98
e == 101
E == 69
f == 102
n == 110
r == 114
t == 116
u == 117
asterisk == 42
backslash == 92
closeBrace == 125
closeBracket == 93
colon == 58
comma == 44
dot == 46
doubleQuote == 34
minus == 45
openBrace == 123
openBracket == 91
plus == 43
slash == 47
formFeed == 12
backspace == 8

(* ScanError *)

None == 0
UnexpectedEndOfComment == 1
UnexpectedEndOfString == 2
UnexpectedEndOfNumber == 3
InvalidUnicode == 4
InvalidEscapeCharacter == 5
InvalidCharacter == 6

(* SyntaxKind *)

OpenBraceToken == 1
CloseBraceToken == 2
OpenBracketToken == 3
CloseBracketToken == 4
CommaToken == 5
ColonToken == 6
NullKeyword == 7
TrueKeyword == 8
FalseKeyword == 9
StringLiteral == 10
NumericLiteral == 11
LineCommentTrivia == 12
BlockCommentTrivia == 13
LineBreakTrivia == 14
Trivia == 15
Unknown == 16
EOF == 17

-----------------------------------------------------------------------------
(* JavaScript string primitives, on sequences of code units. *)

\* charCodeAt outside the string is NaN: it compares unequal to every code
\* and fails every range test, as -1 does.
NaN == 0 - 1

charCodeAt(text, p) ==
    IF p >= 0 /\ p < Len(text) THEN text[p + 1] ELSE NaN

Clamp(x, lo, hi) == IF x < lo THEN lo ELSE IF x > hi THEN hi ELSE x

\* String.prototype.substring: both indices are clamped to [0, length] and
\* swapped when start > end.
substring(text, start, end) ==
    LET s == Clamp(start, 0, Len(text))
        d == Clamp(end, 0, Len(text))
        lo == IF s <= d THEN s ELSE d
        hi == IF s <= d THEN d ELSE s
    IN  SubSeq(text, lo + 1, hi)

isWhiteSpace(ch) == ch = space \/ ch = tab

isLineBreak(ch) == ch = lineFeed \/ ch = carriageReturn

isDigit(ch) == ch >= digit0 /\ ch <= digit9

-----------------------------------------------------------------------------
(* impl/scanner.ts: createScanner.  The closure variables are the fields of *)
(* a record; every function of the closure maps a scanner record to the    *)
(* record after the call.                                                   *)

createScanner(text, ignoreTrivia) ==
    [ text |-> text,
      ignoreTrivia |-> ignoreTrivia,
      len |-> Len(text),
      pos |-> 0,
      value |-> << >>,
      tokenOffset |-> 0,
      token |-> Unknown,
      lineNumber |-> 0,
      lineStartOffset |-> 0,
      tokenLineStartOffset |-> 0,
      prevTokenLineStartOffset |-> 0,
      scanError |-> None ]

RECURSIVE scanHexDigitsLoop(_, _, _, _, _)
scanHexDigitsLoop(s, count, exact, digits, val) ==
    IF digits < count \/ ~exact
    THEN LET ch == charCodeAt(s.text, s.pos)
             s1 == [s EXCEPT !.pos = @ + 1]
         IN  IF ch >= digit0 /\ ch <= digit9
             THEN scanHexDigitsLoop(s1, count, exact, digits + 1, val * 16 + ch - digit0)
             ELSE IF ch >= A /\ ch <= F
             THEN scanHexDigitsLoop(s1, count, exact, digits + 1, val * 16 + ch - A + 10)
             ELSE IF ch >= a /\ ch <= f
             THEN scanHexDigitsLoop(s1, count, exact, digits + 1, val * 16 + ch - a + 10)
             ELSE [s |-> s, digits |-> digits, value |-> val]
    ELSE [s |-> s, digits |-> digits, value |-> val]

\* scanHexDigits that returns the digits it found when they are fewer than count
scanHexDigits_fewerDigits(s, count, exact) ==
    LET res == scanHexDigitsLoop(s, count, exact, 0, 0)
    IN  [s |-> res.s, value |-> res.value]

scanHexDigits(s, count, exact) ==
    LET res == scanHexDigitsLoop(s, count, exact, 0, 0)
    IN  [s |-> res.s, value |-> IF res.digits < count THEN 0 - 1 ELSE res.value]

\* setPosition that leaves the token and its value as they are
setPosition_keepsToken(s, newPosition) ==
    [s EXCEPT !.pos = newPosition,
              !.tokenOffset = 0,
              !.scanError = None]

setPosition(s, newPosition) ==
    [s EXCEPT !.pos = newPosition,
              !.value = << >>,
              !.tokenOffset = 0,
              !.token = Unknown,
              !.scanError = None]

\* skipDigits that stops after one digit
skipDigits_oneDigit(text, p) ==
    IF p < Len(text) /\ isDigit(charCodeAt(text, p)) THEN p + 1 ELSE p

\* while (pos < text.length && isDigit(text.charCodeAt(pos))) pos++
RECURSIVE skipDigits(_, _)
skipDigits(text, p) ==
    IF p < Len(text) /\ isDigit(charCodeAt(text, p))
    THEN skipDigits(text, p + 1)
    ELSE p

scanNumber(s) ==
    LET text == s.text
        start == s.pos
        p1 == IF charCodeAt(text, s.pos) = digit0
              THEN s.pos + 1
              ELSE skipDigits(text, s.pos + 1)
        hasDot == p1 < Len(text) /\ charCodeAt(text, p1) = dot
        p2 == p1 + 1
        hasFraction == p2 < Len(text) /\ isDigit(charCodeAt(text, p2))
        p3 == IF hasDot THEN skipDigits(text, p2 + 1) ELSE p1
        hasExponent == p3 < Len(text)
                       /\ (charCodeAt(text, p3) = E \/ charCodeAt(text, p3) = e)
        p4 == p3 + 1
        p5 == IF (p4 < Len(text) /\ charCodeAt(text, p4) = plus)
                 \/ charCodeAt(text, p4) = minus
              THEN p4 + 1
              ELSE p4
        hasExponentDigits == p5 < Len(text) /\ isDigit(charCodeAt(text, p5))
        p6 == skipDigits(text, p5 + 1)
    IN  IF hasDot /\ ~hasFraction
        THEN [s |-> [s EXCEPT !.pos = p2, !.scanError = UnexpectedEndOfNumber],
              result |-> substring(text, start, p2)]
        ELSE IF ~hasExponent
        THEN [s |-> [s EXCEPT !.pos = p3], result |-> substring(text, start, p3)]
        ELSE IF hasExponentDigits
        THEN [s |-> [s EXCEPT !.pos = p6], result |-> substring(text, start, p6)]
        ELSE [s |-> [s EXCEPT !.pos = p5, !.scanError = UnexpectedEndOfNumber],
              result |-> substring(text, start, p3)]

RECURSIVE scanStringLoop(_, _, _)
scanStringLoop(s, result, start) ==
    IF s.pos >= s.len
    THEN [s |-> [s EXCEPT !.scanError = UnexpectedEndOfString],
          result |-> result \o substring(s.text, start, s.pos)]
    ELSE
    LET ch == charCodeAt(s.text, s.pos)
    IN  IF ch = doubleQuote
        THEN [s |-> [s EXCEPT !.pos = @ + 1],
              result |-> result \o substring(s.text, start, s.pos)]
        ELSE IF ch = backslash
        THEN LET res1 == result \o substring(s.text, start, s.pos)
                 s1 == [s EXCEPT !.pos = @ + 1]
                 ch2 == charCodeAt(s.text, s1.pos)
                 s2 == [s1 EXCEPT !.pos = @ + 1]
                 hex == scanHexDigits(s2, 4, TRUE)
             IN  IF s1.pos >= s1.len
                 THEN [s |-> [s1 EXCEPT !.scanError = UnexpectedEndOfString],
                       result |-> res1]
                 ELSE CASE ch2 = doubleQuote -> scanStringLoop(s2, res1 \o <<doubleQuote>>, s2.pos)
                        [] ch2 = backslash -> scanStringLoop(s2, res1 \o <<backslash>>, s2.pos)
                        [] ch2 = slash -> scanStringLoop(s2, res1 \o <<slash>>, s2.pos)
                        [] ch2 = b -> scanStringLoop(s2, res1 \o <<backspace>>, s2.pos)
                        [] ch2 = f -> scanStringLoop(s2, res1 \o <<formFeed>>, s2.pos)
                        [] ch2 = n -> scanStringLoop(s2, res1 \o <<lineFeed>>, s2.pos)
                        [] ch2 = r -> scanStringLoop(s2, res1 \o <<carriageReturn>>, s2.pos)
                        [] ch2 = t -> scanStringLoop(s2, res1 \o <<tab>>, s2.pos)
                        [] ch2 = u ->
                            IF hex.value >= 0
                            THEN scanStringLoop(hex.s, res1 \o <<hex.value>>, hex.s.pos)
                            ELSE scanStringLoop([hex.s EXCEPT !.scanError = InvalidUnicode],
                                                res1, hex.s.pos)
                        [] OTHER ->
                            scanStringLoop([s2 EXCEPT !.scanError = InvalidEscapeCharacter],
                                           res1, s2.pos)
        ELSE IF ch >= 0 /\ ch <= 31
        THEN IF isLineBreak(ch)
             THEN [s |-> [s EXCEPT !.scanError = UnexpectedEndOfString],
                   result |-> result \o substring(s.text, start, s.pos)]
             ELSE scanStringLoop([s EXCEPT !.scanError = InvalidCharacter, !.pos = @ + 1],
                                 result, start)
        ELSE scanStringLoop([s EXCEPT !.pos = @ + 1], result, start)

scanString(s) == scanStringLoop(s, << >>, s.pos)

isUnknownContentCharacter(code) ==
    IF isWhiteSpace(code) \/ isLineBreak(code)
    THEN FALSE
    ELSE code \notin { closeBrace, closeBracket, openBrace, openBracket,
                       doubleQuote, colon, comma, slash }

\* do { pos++; value += code; code = text.charCodeAt(pos) } while (isWhiteSpace(code))
RECURSIVE scanWhiteSpace(_, _)
scanWhiteSpace(s, code) ==
    LET s1 == [s EXCEPT !.pos = @ + 1, !.value = @ \o <<code>>]
        next == charCodeAt(s.text, s1.pos)
    IN  IF isWhiteSpace(next) THEN scanWhiteSpace(s1, next) ELSE s1

\* while (pos < len) { if (isLineBreak(text.charCodeAt(pos))) break; pos++ }
RECURSIVE scanLineComment(_)
scanLineComment(s) ==
    IF s.pos < s.len /\ ~isLineBreak(charCodeAt(s.text, s.pos))
    THEN scanLineComment([s EXCEPT !.pos = @ + 1])
    ELSE s

\* while (pos < safeLength) { ... }: the scan for the closing */
RECURSIVE scanBlockComment(_, _)
scanBlockComment(s, safeLength) ==
    IF s.pos < safeLength
    THEN LET ch == charCodeAt(s.text, s.pos)
             p1 == s.pos + 1
             p2 == IF ch = carriageReturn /\ charCodeAt(s.text, p1) = lineFeed
                   THEN p1 + 1
                   ELSE p1
         IN  IF ch = asterisk /\ charCodeAt(s.text, s.pos + 1) = slash
             THEN [s |-> [s EXCEPT !.pos = @ + 2], commentClosed |-> TRUE]
             ELSE IF isLineBreak(ch)
             THEN scanBlockComment([s EXCEPT !.pos = p2,
                                             !.lineNumber = @ + 1,
                                             !.tokenLineStartOffset = p2],
                                   safeLength)
             ELSE scanBlockComment([s EXCEPT !.pos = p1], safeLength)
    ELSE [s |-> s, commentClosed |-> FALSE]

\* while (pos < len && isUnknownContentCharacter(code)) { pos++; code = text.charCodeAt(pos) }
RECURSIVE scanUnknownContent(_, _)
scanUnknownContent(s, code) ==
    IF s.pos < s.len /\ isUnknownContentCharacter(code)
    THEN scanUnknownContent([s EXCEPT !.pos = @ + 1], charCodeAt(s.text, s.pos + 1))
    ELSE [s |-> s, code |-> code]

\* keywordKind that does not know null
keywordKind_noNull(value) ==
    IF value = <<t, r, u, e>> THEN TrueKeyword
    ELSE IF value = <<f, a, 108, 115, e>> THEN FalseKeyword
    ELSE Unknown

keywordKind(value) ==
    IF value = <<t, r, u, e>> THEN TrueKeyword
    ELSE IF value = <<f, a, 108, 115, e>> THEN FalseKeyword
    ELSE IF value = <<n, u, 108, 108>> THEN NullKeyword
    ELSE Unknown

\* the token of a string literal scanned as str
stringToken(str) ==
    [str.s EXCEPT !.value = str.result, !.token = StringLiteral]

\* the token of a line comment that began at start and was scanned up to s
lineCommentToken(s, start) ==
    [s EXCEPT !.value = substring(s.text, start, s.pos),
              !.token = LineCommentTrivia]

\* if (!commentClosed) { pos++; scanError = UnexpectedEndOfComment }
blockCommentEnd(res) ==
    IF res.commentClosed
    THEN res.s
    ELSE [res.s EXCEPT !.pos = @ + 1, !.scanError = UnexpectedEndOfComment]

\* the token of a block comment that began at start and was scanned up to s
blockCommentToken(s, start) ==
    [s EXCEPT !.value = substring(s.text, start, s.pos),
              !.token = BlockCommentTrivia]

\* numberToken with the position put back to the start of the token
numberToken_keepsPosition(num) ==
    [num.s EXCEPT !.value = @ \o num.result,
                  !.pos = num.s.tokenOffset,
                  !.token = NumericLiteral]

\* value += scanNumber(); return token = NumericLiteral
numberToken(num) ==
    [num.s EXCEPT !.value = @ \o num.result, !.token = NumericLiteral]

\* minusToken that scans a number whatever follows the minus
minusToken_alwaysNumber(afterMinus) ==
    numberToken(scanNumber(afterMinus))

\* case minus: value += '-'; pos++; then a number or Unknown
minusToken(afterMinus) ==
    IF afterMinus.pos = afterMinus.len
       \/ ~isDigit(charCodeAt(afterMinus.text, afterMinus.pos))
    THEN [afterMinus EXCEPT !.token = Unknown]
    ELSE numberToken(scanNumber(afterMinus))

\* the word between tokenOffset and pos: a keyword or Unknown
wordToken(s) ==
    [s EXCEPT !.value = substring(s.text, s.tokenOffset, s.pos),
              !.token = keywordKind(substring(s.text, s.tokenOffset, s.pos))]

\* default: literals and unknown symbols, word being the scanner and the
\* code after the loop over the unknown content characters
unknownContentToken(word) ==
    IF word.s.tokenOffset # word.s.pos
    THEN wordToken(word.s)
    ELSE [word.s EXCEPT !.value = @ \o <<word.code>>,
                        !.pos = @ + 1,
                        !.token = Unknown]

\* lineBreakToken that does not take the \n of \r\n into the token
lineBreakToken_single(lb1, code) ==
    [lb1 EXCEPT !.lineNumber = @ + 1,
                !.tokenLineStartOffset = lb1.pos,
                !.token = LineBreakTrivia]

\* trivia: newlines, lb1 being the scanner after the first character
lineBreakToken(lb1, code) ==
    LET lb2 == IF code = carriageReturn /\ charCodeAt(lb1.text, lb1.pos) = lineFeed
               THEN [lb1 EXCEPT !.pos = @ + 1, !.value = @ \o <<lineFeed>>]
               ELSE lb1
    IN  [lb2 EXCEPT !.lineNumber = @ + 1,
                    !.tokenLineStartOffset = lb2.pos,
                    !.token = LineBreakTrivia]

\* scanNext after the token fields are reset (s0), code being the character
\* at pos (NaN at the end of the text)
scanToken(s0, code) ==
    IF s0.pos >= s0.len
    THEN [s0 EXCEPT !.tokenOffset = s0.len, !.token = EOF]
    ELSE IF isWhiteSpace(code)
    THEN [scanWhiteSpace(s0, code) EXCEPT !.token = Trivia]
    ELSE IF isLineBreak(code)
    THEN lineBreakToken([s0 EXCEPT !.pos = @ + 1, !.value = @ \o <<code>>], code)
    ELSE CASE code = openBrace -> [s0 EXCEPT !.pos = @ + 1, !.token = OpenBraceToken]
           [] code = closeBrace -> [s0 EXCEPT !.pos = @ + 1, !.token = CloseBraceToken]
           [] code = openBracket -> [s0 EXCEPT !.pos = @ + 1, !.token = OpenBracketToken]
           [] code = closeBracket -> [s0 EXCEPT !.pos = @ + 1, !.token = CloseBracketToken]
           [] code = colon -> [s0 EXCEPT !.pos = @ + 1, !.token = ColonToken]
           [] code = comma -> [s0 EXCEPT !.pos = @ + 1, !.token = CommaToken]
           [] code = doubleQuote ->
                stringToken(scanString([s0 EXCEPT !.pos = @ + 1]))
           [] code = slash ->
                IF charCodeAt(s0.text, s0.pos + 1) = slash
                THEN lineCommentToken(scanLineComment([s0 EXCEPT !.pos = @ + 2]),
                                      s0.pos - 1)
                ELSE IF charCodeAt(s0.text, s0.pos + 1) = asterisk
                THEN blockCommentToken(
                        blockCommentEnd(
                            scanBlockComment([s0 EXCEPT !.pos = @ + 2], s0.len - 1)),
                        s0.pos - 1)
                ELSE [s0 EXCEPT !.value = @ \o <<code>>,
                                !.pos = @ + 1,
                                !.token = Unknown]
           [] code = minus ->
                minusToken([s0 EXCEPT !.value = @ \o <<code>>, !.pos = @ + 1])
           [] isDigit(code) -> numberToken(scanNumber(s0))
           [] OTHER -> unknownContentToken(scanUnknownContent(s0, code))

\* scanNext that does not reset the scan error
scanNext_keepsError(s) ==
    scanToken([s EXCEPT !.value = << >>,
                        !.tokenOffset = s.pos,
                        !.lineStartOffset = s.lineNumber,
                        !.prevTokenLineStartOffset = s.tokenLineStartOffset],
              charCodeAt(s.text, s.pos))

scanNext(s) ==
    scanToken([s EXCEPT !.value = << >>,
                        !.scanError = None,
                        !.tokenOffset = s.pos,
                        !.lineStartOffset = s.lineNumber,
                        !.prevTokenLineStartOffset = s.tokenLineStartOffset],
              charCodeAt(s.text, s.pos))

\* scanWhileTrivia that stops at line breaks
RECURSIVE scanWhileTrivia_stopsAtLineBreak(_)
scanWhileTrivia_stopsAtLineBreak(s) ==
    IF s.token >= LineCommentTrivia /\ s.token <= Trivia /\ s.token # LineBreakTrivia
    THEN scanWhileTrivia_stopsAtLineBreak(scanNext(s))
    ELSE s

\* do { result = scanNext() } while (result is trivia), after the first scanNext()
RECURSIVE scanWhileTrivia(_)
scanWhileTrivia(s) ==
    IF s.token >= LineCommentTrivia /\ s.token <= Trivia
    THEN scanWhileTrivia(scanNext(s))
    ELSE s

scanNextNonTrivia(s) == scanWhileTrivia(scanNext(s))

\* scan: ignoreTrivia ? scanNextNonTrivia : scanNext
scan(s) == IF s.ignoreTrivia THEN scanNextNonTrivia(s) ELSE scanNext(s)

getPosition(s) == s.pos
getToken(s) == s.token
getTokenValue(s) == s.value
\* getTokenOffset that returns the end of the token
getTokenOffset_end(s) == s.pos

getTokenOffset(s) == s.tokenOffset
getTokenLength(s) == s.pos - s.tokenOffset
getTokenStartLine(s) == s.lineStartOffset
getTokenStartCharacter(s) == s.tokenOffset - s.prevTokenLineStartOffset
getTokenError(s) == s.scanError

-----------------------------------------------------------------------------
(* impl/format.ts: format.  ctx holds what format computes once before the  *)
(* token walk; the record fs holds its mutable locals during the walk.      *)

\* format(documentText, undefined, options): no range
NoRange == [offset |-> 0 - 1, length |-> 0 - 1]

repeat(str, count) ==
    LET RECURSIVE rep(_)
        rep(i) == IF i < count THEN str \o rep(i + 1) ELSE << >>
    IN  rep(0)

isEOL(text, offset) ==
    \/ offset < 0
    \/ offset >= Len(text)
    \/ text[offset + 1] \in {carriageReturn, lineFeed}

\* options.name of a FormattingOptions object, all of whose properties are
\* optional: the value of an omitted property is undefined, which the
\* formatter only tests for truth, as it does 0, false and ''
property(opts, name, undefined) ==
    IF name \in DOMAIN opts THEN opts[name] ELSE undefined

RECURSIVE computeIndentChars(_, _, _, _)
computeIndentChars(content, i, nChars, tabSize) ==
    IF i < Len(content) /\ content[i + 1] = space
    THEN computeIndentChars(content, i + 1, nChars + 1, tabSize)
    ELSE IF i < Len(content) /\ content[i + 1] = tab
    THEN computeIndentChars(content, i + 1, nChars + tabSize, tabSize)
    ELSE nChars

computeIndentLevel(content, opts) ==
    LET tabSize == IF property(opts, "tabSize", 0) # 0 THEN opts.tabSize ELSE 4
    IN  computeIndentChars(content, 0, 0, tabSize) \div tabSize

RECURSIVE getEOLFrom(_, _, _)
getEOLFrom(opts, text, i) ==
    IF i < Len(text)
    THEN IF text[i + 1] = carriageReturn
         THEN IF i + 1 < Len(text) /\ text[i + 2] = lineFeed
              THEN <<carriageReturn, lineFeed>>
              ELSE <<carriageReturn>>
         ELSE IF text[i + 1] = lineFeed
         THEN <<lineFeed>>
         ELSE getEOLFrom(opts, text, i + 1)
    ELSE IF property(opts, "eol", << >>) # << >> THEN opts.eol ELSE <<lineFeed>>

\* getEOL that takes options.eol whatever the line breaks of the document
getEOL_ignoresDocument(opts, text) ==
    IF property(opts, "eol", << >>) # << >> THEN opts.eol ELSE <<lineFeed>>

getEOL(opts, text) == getEOLFrom(opts, text, 0)

\* indentValue of format that takes an omitted insertSpaces as true
indentValueOf_spacesWhenOmitted(opts) ==
    IF property(opts, "insertSpaces", TRUE)
    THEN repeat(<<space>>,
                IF property(opts, "tabSize", 0) # 0 THEN opts.tabSize ELSE 4)
    ELSE <<tab>>

\* if (options.insertSpaces) indentValue = repeat(' ', options.tabSize || 4)
\* else indentValue = '\t'
indentValueOf(opts) ==
    IF property(opts, "insertSpaces", FALSE)
    THEN repeat(<<space>>,
                IF property(opts, "tabSize", 0) # 0 THEN opts.tabSize ELSE 4)
    ELSE <<tab>>

\* while (formatTextStart > 0 && !isEOL(documentText, formatTextStart - 1)) formatTextStart--
RECURSIVE lineStartBefore(_, _)
lineStartBefore(text, i) ==
    IF i > 0 /\ ~isEOL(text, i - 1) THEN lineStartBefore(text, i - 1) ELSE i

\* while (endOffset < documentText.length && !isEOL(documentText, endOffset)) endOffset++
RECURSIVE lineEndAfter(_, _)
lineEndAfter(text, i) ==
    IF i < Len(text) /\ ~isEOL(text, i) THEN lineEndAfter(text, i + 1) ELSE i

\* the part of format before the token walk (range expansion, eol, indentValue)
formatContext(text, rng, opts) ==
    LET hasRange == rng # NoRange
        rangeStart == IF hasRange THEN rng.offset ELSE 0
        rangeEnd == IF hasRange THEN rangeStart + rng.length ELSE Len(text)
        formatTextStart == IF hasRange THEN lineStartBefore(text, rangeStart) ELSE 0
        endOffset == IF hasRange THEN lineEndAfter(text, rangeEnd) ELSE Len(text)
        formatText == IF hasRange
                      THEN substring(text, formatTextStart, endOffset)
                      ELSE text
    IN  [ documentText |-> text,
          hasRange |-> hasRange,
          rangeStart |-> rangeStart,
          rangeEnd |-> rangeEnd,
          formatTextStart |-> formatTextStart,
          endOffset |-> endOffset,
          formatText |-> formatText,
          initialIndentLevel |-> IF hasRange
                                 THEN computeIndentLevel(formatText, opts)
                                 ELSE 0,
          eol |-> getEOL(opts, text),
          indentValue |-> indentValueOf(opts),
          keepLines |-> property(opts, "keepLines", FALSE),
          insertFinalNewline |-> property(opts, "insertFinalNewline", FALSE) ]

\* newLinesAndIndent without the indentation of the nesting level
newLinesAndIndent_noIndent(ctx, numberLineBreaks, indentLevel) ==
    IF numberLineBreaks > 1
    THEN repeat(ctx.eol, numberLineBreaks)
         \o repeat(ctx.indentValue, ctx.initialIndentLevel)
    ELSE ctx.eol \o repeat(ctx.indentValue, ctx.initialIndentLevel)

newLinesAndIndent(ctx, numberLineBreaks, indentLevel) ==
    IF numberLineBreaks > 1
    THEN repeat(ctx.eol, numberLineBreaks)
         \o repeat(ctx.indentValue, ctx.initialIndentLevel + indentLevel)
    ELSE ctx.eol \o repeat(ctx.indentValue, ctx.initialIndentLevel + indentLevel)

\* the while loop of format's scanNext: skip Trivia and LineBreakTrivia
RECURSIVE format_skipTrivia(_, _, _)
format_skipTrivia(ctx, s, numberLineBreaks) ==
    IF s.token = Trivia \/ s.token = LineBreakTrivia
    THEN format_skipTrivia(ctx, scan(s),
            IF s.token = LineBreakTrivia /\ ctx.keepLines
            THEN numberLineBreaks + 1
            ELSE IF s.token = LineBreakTrivia THEN 1 ELSE numberLineBreaks)
    ELSE [s |-> s, numberLineBreaks |-> numberLineBreaks]

\* the locals once the loop of format's scanNext has ended with res
format_scanned(fs, res) ==
    [fs EXCEPT !.scanner = res.s,
               !.numberLineBreaks = res.numberLineBreaks,
               !.hasError = (res.s.token = Unknown
                             \/ getTokenError(res.s) # None)]

format_scanNext(ctx, fs) ==
    format_scanned(fs, format_skipTrivia(ctx, scan(fs.scanner), 0))

\* addEdit recording the end offset of the replaced span as its length
addEdit_lengthIsEnd(ctx, fs, text, startOffset, endOffset) ==
    IF /\ ~fs.hasError
       /\ (~ctx.hasRange \/ (startOffset < ctx.rangeEnd /\ endOffset > ctx.rangeStart))
       /\ substring(ctx.documentText, startOffset, endOffset) # text
    THEN [fs EXCEPT !.editOperations =
            Append(@, [offset |-> startOffset,
                       length |-> endOffset,
                       content |-> text])]
    ELSE fs

\* addEdit without the test of the span against the range
addEdit_ignoreRange(ctx, fs, text, startOffset, endOffset) ==
    IF /\ ~fs.hasError
       /\ substring(ctx.documentText, startOffset, endOffset) # text
    THEN [fs EXCEPT !.editOperations =
            Append(@, [offset |-> startOffset,
                       length |-> endOffset - startOffset,
                       content |-> text])]
    ELSE fs

addEdit(ctx, fs, text, startOffset, endOffset) ==
    IF /\ ~fs.hasError
       /\ (~ctx.hasRange \/ (startOffset < ctx.rangeEnd /\ endOffset > ctx.rangeStart))
       /\ substring(ctx.documentText, startOffset, endOffset) # text
    THEN [fs EXCEPT !.editOperations =
            Append(@, [offset |-> startOffset,
                       length |-> endOffset - startOffset,
                       content |-> text])]
    ELSE fs

isComment(token) == token = LineCommentTrivia \/ token = BlockCommentTrivia

\* while (numberLineBreaks === 0 && secondToken is a comment) { ... }
RECURSIVE format_sameLineComments(_, _)
format_sameLineComments(ctx, w) ==
    IF w.fs.numberLineBreaks = 0 /\ isComment(w.fs.scanner.token)
    THEN LET commentTokenStart == getTokenOffset(w.fs.scanner) + ctx.formatTextStart
             fs1 == addEdit(ctx, w.fs, <<space>>, w.firstTokenEnd, commentTokenStart)
             needsLineBreak == w.fs.scanner.token = LineCommentTrivia
         IN  format_sameLineComments(ctx,
                [ fs |-> format_scanNext(ctx, fs1),
                  firstTokenEnd |-> getTokenOffset(w.fs.scanner)
                                    + getTokenLength(w.fs.scanner)
                                    + ctx.formatTextStart,
                  needsLineBreak |-> needsLineBreak,
                  replaceContent |-> IF needsLineBreak
                                     THEN newLinesAndIndent(ctx, w.fs.numberLineBreaks,
                                                            w.fs.indentLevel)
                                     ELSE << >> ])
    ELSE w

\* one iteration of while (firstToken !== SyntaxKind.EOF) { ... }
\* the rest of the loop body, once the same-line comments after firstToken
\* are passed: w holds the locals fs, firstTokenEnd, needsLineBreak and
\* replaceContent at that point
format_replace(ctx, firstToken, w) ==
    LET secondToken == w.fs.scanner.token
        numberLineBreaks == w.fs.numberLineBreaks
        keepLines == ctx.keepLines
        nli(level) == newLinesAndIndent(ctx, numberLineBreaks, level)
        same == [ indentLevel |-> w.fs.indentLevel,
                  hasError |-> w.fs.hasError,
                  replaceContent |-> w.replaceContent ]
        closing(open) ==
            LET level == IF firstToken # open
                         THEN w.fs.indentLevel - 1
                         ELSE w.fs.indentLevel
            IN  [same EXCEPT
                   !.indentLevel = level,
                   !.replaceContent =
                       IF (keepLines /\ numberLineBreaks > 0)
                          \/ (~keepLines /\ firstToken # open)
                       THEN nli(level)
                       ELSE IF keepLines THEN <<space>> ELSE @]
        byFirst ==
            CASE firstToken \in {OpenBracketToken, OpenBraceToken} ->
                    [same EXCEPT
                       !.indentLevel = @ + 1,
                       !.replaceContent =
                           IF (keepLines /\ numberLineBreaks > 0) \/ ~keepLines
                           THEN nli(w.fs.indentLevel + 1)
                           ELSE <<space>>]
              [] firstToken = CommaToken ->
                    [same EXCEPT
                       !.replaceContent =
                           IF (keepLines /\ numberLineBreaks > 0) \/ ~keepLines
                           THEN nli(w.fs.indentLevel)
                           ELSE <<space>>]
              [] firstToken = LineCommentTrivia ->
                    [same EXCEPT !.replaceContent = nli(w.fs.indentLevel)]
              [] firstToken = BlockCommentTrivia ->
                    [same EXCEPT
                       !.replaceContent =
                           IF numberLineBreaks > 0
                           THEN nli(w.fs.indentLevel)
                           ELSE IF ~w.needsLineBreak THEN <<space>> ELSE @]
              [] firstToken = ColonToken ->
                    [same EXCEPT
                       !.replaceContent =
                           IF keepLines /\ numberLineBreaks > 0
                           THEN nli(w.fs.indentLevel)
                           ELSE IF ~w.needsLineBreak THEN <<space>> ELSE @]
              [] firstToken = StringLiteral ->
                    [same EXCEPT
                       !.replaceContent =
                           IF keepLines /\ numberLineBreaks > 0
                           THEN nli(w.fs.indentLevel)
                           ELSE IF secondToken = ColonToken /\ ~w.needsLineBreak
                           THEN << >>
                           ELSE @]
              [] firstToken \in {NullKeyword, TrueKeyword, FalseKeyword, NumericLiteral,
                                 CloseBraceToken, CloseBracketToken} ->
                    IF keepLines /\ numberLineBreaks > 0
                    THEN [same EXCEPT !.replaceContent = nli(w.fs.indentLevel)]
                    ELSE IF isComment(secondToken) /\ ~w.needsLineBreak
                    THEN [same EXCEPT !.replaceContent = <<space>>]
                    ELSE IF secondToken # CommaToken /\ secondToken # EOF
                    THEN [same EXCEPT !.hasError = TRUE]
                    ELSE same
              [] firstToken = Unknown -> [same EXCEPT !.hasError = TRUE]
              [] OTHER -> same
        afterSwitch ==
            IF numberLineBreaks > 0 /\ isComment(secondToken)
            THEN [byFirst EXCEPT !.replaceContent = nli(byFirst.indentLevel)]
            ELSE byFirst
        decided ==
            IF secondToken = CloseBraceToken THEN closing(OpenBraceToken)
            ELSE IF secondToken = CloseBracketToken THEN closing(OpenBracketToken)
            ELSE afterSwitch
        replaceContent ==
            IF secondToken = EOF
            THEN IF keepLines /\ numberLineBreaks > 0
                 THEN nli(decided.indentLevel)
                 ELSE IF ctx.insertFinalNewline THEN ctx.eol ELSE << >>
            ELSE decided.replaceContent
        secondTokenStart == getTokenOffset(w.fs.scanner) + ctx.formatTextStart
        fs2 == [w.fs EXCEPT !.indentLevel = decided.indentLevel,
                            !.hasError = decided.hasError]
    IN  [addEdit(ctx, fs2, replaceContent, w.firstTokenEnd, secondTokenStart)
            EXCEPT !.firstToken = secondToken]

\* one pass of the body of while (firstToken !== EOF)
format_step(ctx, fs) ==
    format_replace(ctx, fs.firstToken,
        format_sameLineComments(ctx,
            [ fs |-> format_scanNext(ctx, fs),
              firstTokenEnd |-> getTokenOffset(fs.scanner)
                                + getTokenLength(fs.scanner)
                                + ctx.formatTextStart,
              needsLineBreak |-> FALSE,
              replaceContent |-> << >> ]))

RECURSIVE format_loop(_, _)
format_loop(ctx, fs) ==
    IF fs.firstToken # EOF THEN format_loop(ctx, format_step(ctx, fs)) ELSE fs

\* the first token's edits, then the token loop; fs0 holds the locals after
\* the first scanNext()
format_first(ctx, fs0) ==
    LET fs1 == IF ctx.keepLines /\ fs0.numberLineBreaks > 0
               THEN addEdit(ctx, fs0, repeat(ctx.eol, fs0.numberLineBreaks), 0, 0)
               ELSE fs0
        firstToken == fs0.scanner.token
        fs2 == IF firstToken # EOF
               THEN addEdit(ctx, fs1,
                            repeat(ctx.indentValue, ctx.initialIndentLevel),
                            ctx.formatTextStart,
                            getTokenOffset(fs0.scanner) + ctx.formatTextStart)
               ELSE fs1
    IN  format_loop(ctx, [fs2 EXCEPT !.firstToken = firstToken])

format_walk(ctx) ==
    format_first(ctx,
        format_scanNext(ctx,
            [ scanner |-> createScanner(ctx.formatText, FALSE),
              numberLineBreaks |-> 0,
              indentLevel |-> 0,
              hasError |-> FALSE,
              editOperations |-> << >>,
              firstToken |-> Unknown ]))

\* the state of format's locals when the token walk is over
format_run(text, rng, opts) == format_walk(formatContext(text, rng, opts))

format(text, rng, opts) == format_run(text, rng, opts).editOperations

\* edit.applyEdit, as the formatter test helper spells it out
applyEdit(text, edit) ==
    substring(text, 0, edit.offset) \o edit.content
    \o substring(text, edit.offset + edit.length, Len(text))

\* applyEditsFrom that applies the edits from the first to the last
RECURSIVE applyEditsFrom_firstToLast(_, _, _)
applyEditsFrom_firstToLast(text, edits, i) ==
    IF i >= 1
    THEN applyEdit(applyEditsFrom_firstToLast(text, edits, i - 1), edits[i])
    ELSE text

\* main.ts applyEdits: for (let i = edits.length - 1; i >= 0; i--) text = applyEdit(text, edits[i])
RECURSIVE applyEditsFrom(_, _, _)
applyEditsFrom(text, edits, i) ==
    IF i >= 1 THEN applyEditsFrom(applyEdit(text, edits[i]), edits, i - 1) ELSE text

applyEdits(text, edits) == applyEditsFrom(text, edits, Len(edits))

-----------------------------------------------------------------------------
(* Bounded inputs. *)

\* all sequences over S of length at most k
SeqsUpTo(S, k) == UNION { [1..m -> S] : m \in 0..k }

RECURSIVE Concat(_)
Concat(parts) ==
    IF parts = << >> THEN << >> ELSE Head(parts) \o Concat(Tail(parts))

\* longest text handed to the scanner
MaxLen == 4

\* characters of the scanned texts: white space, both line breaks, the
\* comment, string and number characters, a structural and a word character
ScanAlphabet ==
    { space, lineFeed, carriageReturn, slash, asterisk, doubleQuote,
      digit0 + 1, dot, openBrace, a }

ScanTexts == SeqsUpTo(ScanAlphabet, MaxLen)

\* scan() calls made after the first EOF was returned
MaxScansAtEOF == 2

NoOptions == [tabSize |-> 0, insertSpaces |-> FALSE, eol |-> << >>,
              insertFinalNewline |-> FALSE, keepLines |-> FALSE]

\* the variables of modify and visit while neither is called
CallIdle ==
    /\ modifyPath = << >>
    /\ modifyValue = << >>
    /\ stopOffsets = {}
    /\ actuals = << >>

\* the formatter's variables while only the scanner runs
FormatIdle ==
    /\ CallIdle
    /\ documentText = << >>
    /\ range = NoRange
    /\ options = NoOptions
    /\ editOperations = << >>
    /\ formatted = << >>
    /\ reformatted = << >>
    /\ pc = "scan"

-----------------------------------------------------------------------------
(* Specification Spec: a scanner on a text, driven by scan() calls. *)

\* what the getters of the scanner return after a scan()
Observed(s) ==
    [ kind |-> getToken(s),
      offset |-> getTokenOffset(s),
      length |-> getTokenLength(s),
      value |-> getTokenValue(s),
      error |-> getTokenError(s),
      startLine |-> getTokenStartLine(s),
      startCharacter |-> getTokenStartCharacter(s) ]

EOFCount(toks) == Cardinality({ i \in DOMAIN toks : toks[i].kind = EOF })

Init ==
    /\ \E text \in ScanTexts : scanner = createScanner(text, FALSE)
    /\ scanned = << >>
    /\ FormatIdle

Scan ==
    /\ pc \in {"scan", "positioned"}
    /\ EOFCount(scanned) < MaxScansAtEOF
    /\ scanner' = scan(scanner)
    /\ scanned' = Append(scanned, Observed(scanner'))
    /\ pc' = "scan"
    /\ UNCHANGED << documentText, range, options, editOperations,
                    formatted, reformatted,
                    callVars >>

Next == Scan

Spec == Init /\ [][Next]_vars

-----------------------------------------------------------------------------
(* Scanner claims. *)

Lexeme(text, tok) == substring(text, tok.offset, tok.offset + tok.length)

Lexemes(text, toks) == Concat([i \in DOMAIN toks |-> Lexeme(text, toks[i])])

ReachedEOF == scanned # << >> /\ scanned[Len(scanned)].kind = EOF

\* C1: once a trivia-aware scanner has returned EOF, the lexemes of the
\* tokens it returned, concatenated in order, are the whole text, and the EOF
\* token has offset len(text) and length 0.
C1_TokenCoverage ==
    ReachedEOF =>
        /\ Lexemes(scanner.text, scanned) = scanner.text
        /\ scanned[Len(scanned)].offset = Len(scanner.text)
        /\ scanned[Len(scanned)].length = 0

\* C2: consecutive tokens of a trivia-aware scanner are contiguous
\* (t1.offset + t1.length = t2.offset, EOF included) and no token extends
\* past the end of the text.
C2_OffsetsContiguous ==
    /\ \A i \in 1..(Len(scanned) - 1) :
          scanned[i].offset + scanned[i].length = scanned[i + 1].offset
    /\ \A i \in DOMAIN scanned :
          scanned[i].offset + scanned[i].length <= Len(scanner.text)

-----------------------------------------------------------------------------
(* Specification SpecFormat: format on a whole document, the edits applied, *)
(* and the result formatted once more.                                      *)

\* pieces a formatted document is built from: white space, line breaks,
\* structural tokens, a number, a string, comments (closed and unclosed)
\* and a word the scanner does not know
FormatPieces ==
    { <<space>>, <<lineFeed>>, <<carriageReturn>>,
      <<openBrace>>, <<closeBrace>>, <<openBracket>>, <<closeBracket>>,
      <<colon>>, <<comma>>,
      <<digit0 + 1>>,
      <<doubleQuote, a, doubleQuote>>,
      <<slash, slash, a>>,
      <<slash, asterisk, a, asterisk, slash>>,
      <<slash, asterisk>>,
      <<a>> }

\* pieces per document
MaxPieces == 3

TextsOf(pieces, k) == { Concat(parts) : parts \in SeqsUpTo(pieces, k) }

FormatTexts == TextsOf(FormatPieces, MaxPieces)

\* the options of the formatter tests: { tabSize: 2, insertSpaces: true, eol: '\n' }
FormatOptions ==
    [ tabSize : {2},
      insertSpaces : {TRUE},
      eol : {<<lineFeed>>},
      insertFinalNewline : BOOLEAN,
      keepLines : BOOLEAN ]

ScannerIdle ==
    /\ CallIdle
    /\ scanner = createScanner(<< >>, FALSE)
    /\ scanned = << >>

InitFormat ==
    /\ documentText \in FormatTexts
    /\ options \in FormatOptions
    /\ range = NoRange
    /\ editOperations = << >>
    /\ formatted = << >>
    /\ reformatted = << >>
    /\ pc = "format"
    /\ ScannerIdle

\* edits = format(documentText, range, options)
Format ==
    /\ pc = "format"
    /\ editOperations' = format(documentText, range, options)
    /\ pc' = "apply"
    /\ UNCHANGED << scanner, scanned, documentText, range, options,
                    formatted, reformatted,
                    callVars >>

\* formatted = applyEdits(documentText, edits)
Apply ==
    /\ pc = "apply"
    /\ formatted' = applyEdits(documentText, editOperations)
    /\ pc' = "reformat"
    /\ UNCHANGED << scanner, scanned, documentText, range, options,
                    editOperations, reformatted,
                    callVars >>

\* reformatted = applyEdits(formatted, format(formatted, range, options))
Reformat ==
    /\ pc = "reformat"
    /\ range = NoRange
    /\ reformatted' = applyEdits(formatted, format(formatted, range, options))
    /\ pc' = "done"
    /\ UNCHANGED << scanner, scanned, documentText, range, options,
                    editOperations, formatted,
                    callVars >>

NextFormat == Format \/ Apply \/ Reformat

SpecFormat == InitFormat /\ [][NextFormat]_vars

-----------------------------------------------------------------------------
(* Formatter claims. *)

Formatted == pc \in {"reformat", "done"}

\* every token a trivia-aware scanner returns on text, EOF last
RECURSIVE ScanAll(_)
ScanAll(s) ==
    LET s1 == scan(s)
    IN  IF s1.token = EOF
        THEN <<Observed(s1)>>
        ELSE <<Observed(s1)>> \o ScanAll(s1)

AllTokens(text) == ScanAll(createScanner(text, FALSE))

RECURSIVE SelectTokens(_, _)
SelectTokens(toks, kinds) ==
    IF toks = << >> THEN << >>
    ELSE IF Head(toks).kind \in kinds
    THEN <<Head(toks)>> \o SelectTokens(Tail(toks), kinds)
    ELSE SelectTokens(Tail(toks), kinds)

\* the tokens the formatter walks over: everything but white space and line
\* breaks, comments and EOF included
WalkedKinds == (1..17) \ {Trivia, LineBreakTrivia}

WalkedTokens(text) == SelectTokens(AllTokens(text), WalkedKinds)

\* C3: format is idempotent: formatting the formatted text changes nothing
\* (every text, keepLines and insertFinalNewline true or false, no range).
C3_Idempotent ==
    pc = "done" => reformatted = formatted

\* C5: every edit format returns lies within the original document:
\* offset >= 0, length >= 0 and offset + length <= len(documentText).
C5_EditsInDocument ==
    \A i \in DOMAIN editOperations :
        /\ editOperations[i].offset >= 0
        /\ editOperations[i].length >= 0
        /\ editOperations[i].offset + editOperations[i].length <= Len(documentText)

IsMalformed(tok) == tok.kind = Unknown \/ tok.error # None

\* the edit replaces exactly the gap between the consecutive tokens t1, t2
EditOfGap(edit, t1, t2) ==
    /\ t1.offset + t1.length = edit.offset
    /\ t2.offset = edit.offset + edit.length

\* C7: format emits no edit for the gap between two consecutive tokens when
\* either token of the pair is Unknown or carries a scan error.
C7_NoEditNextToMalformed ==
    range = NoRange =>
        LET toks == WalkedTokens(documentText)
        IN  \A i \in DOMAIN editOperations :
            \A j \in 1..(Len(toks) - 1) :
                EditOfGap(editOperations[i], toks[j], toks[j + 1])
                    => ~IsMalformed(toks[j]) /\ ~IsMalformed(toks[j + 1])

\* the number of LineBreakTrivia tokens in each gap of text: before the first
\* walked token, between consecutive ones, and before EOF
RECURSIVE GapLineBreaksOf(_, _)
GapLineBreaksOf(toks, count) ==
    IF toks = << >> THEN << >>
    ELSE IF Head(toks).kind = LineBreakTrivia
    THEN GapLineBreaksOf(Tail(toks), count + 1)
    ELSE IF Head(toks).kind = Trivia
    THEN GapLineBreaksOf(Tail(toks), count)
    ELSE <<count>> \o GapLineBreaksOf(Tail(toks), 0)

GapLineBreaks(text) == GapLineBreaksOf(AllTokens(text), 0)

\* C8: with keepLines and no range, every gap (before the first token,
\* between consecutive tokens, after the last token) has as many line breaks
\* in the formatted text as in the input.
C8_KeepLinesPreservesLineBreaks ==
    (Formatted /\ options.keepLines /\ range = NoRange) =>
        GapLineBreaks(formatted) = GapLineBreaks(documentText)

-----------------------------------------------------------------------------
(* Specification SpecRange: format on a range of a document of several      *)
(* lines, and the edits applied.                                            *)

\* lines a ranged document is built from: the opening and the closing line
\* of a block comment, an item after a comma, an indented opening brace with
\* an item, a closing brace, an item with a leading space
RangeLines ==
    { <<slash, asterisk>>,
      <<asterisk, slash>>,
      <<comma, digit0 + 1>>,
      <<space, space, openBrace, space, digit0 + 1>>,
      <<closeBrace>>,
      <<space, digit0 + 1>> }

\* lines per ranged document
MaxLines == 3

\* longest range handed to format
MaxRangeLen == 5

RECURSIVE JoinLines(_)
JoinLines(lines) ==
    IF lines = << >> THEN << >>
    ELSE IF Len(lines) = 1 THEN Head(lines)
    ELSE Head(lines) \o <<lineFeed>> \o JoinLines(Tail(lines))

RangeTexts == { JoinLines(lines) : lines \in SeqsUpTo(RangeLines, MaxLines) }

\* the ranges within text, of length at most MaxRangeLen
RangesOf(text) ==
    { rg \in [offset : 0..Len(text), length : 0..MaxRangeLen] :
        rg.offset + rg.length <= Len(text) }

InitRange ==
    /\ documentText \in RangeTexts
    /\ options \in FormatOptions
    /\ range \in {NoRange} \cup RangesOf(documentText)
    /\ editOperations = << >>
    /\ formatted = << >>
    /\ reformatted = << >>
    /\ pc = "format"
    /\ ScannerIdle

NextRange == Format \/ Apply

SpecRange == InitRange /\ [][NextRange]_vars

-----------------------------------------------------------------------------
(* Claims about the edit list. *)

\* C4: the edits format returns are sorted by offset and do not overlap:
\* edits[i].offset + edits[i].length <= edits[i+1].offset.
C4_EditsSortedDisjoint ==
    \A i \in 1..(Len(editOperations) - 1) :
        editOperations[i].offset + editOperations[i].length
            <= editOperations[i + 1].offset

\* C4 witness: format on a range returned several edits.
C4_Witness ==
    /\ pc = "apply"
    /\ range # NoRange
    /\ Len(editOperations) >= 2

IsWhiteSpaceText(text) ==
    \A i \in DOMAIN text : text[i] \in {space, tab, carriageReturn, lineFeed}

\* the edit changes or inserts text strictly inside the token
EditInsideToken(edit, tok) ==
    /\ tok.offset < edit.offset + edit.length
    /\ edit.offset < tok.offset + tok.length

\* C6: format changes white space only: every edit replaces a span of space,
\* tab, CR and LF characters that lies between two tokens of the document
\* (never inside a comment or another token), by such characters.
C6_WhiteSpaceBetweenTokens ==
    LET toks == WalkedTokens(documentText)
    IN  \A i \in DOMAIN editOperations :
            /\ IsWhiteSpaceText(substring(documentText, editOperations[i].offset,
                                          editOperations[i].offset
                                          + editOperations[i].length))
            /\ IsWhiteSpaceText(editOperations[i].content)
            /\ \A j \in DOMAIN toks : ~EditInsideToken(editOperations[i], toks[j])

\* the offset of the start of the line holding offset o
LineStart(text, o) ==
    CHOOSE i \in 0..o :
        /\ i = 0 \/ text[i] \in {carriageReturn, lineFeed}
        /\ \A j \in (i + 1)..o : text[j] \notin {carriageReturn, lineFeed}

\* the offset of the end of the line holding offset o (before its line break)
LineEnd(text, o) ==
    CHOOSE i \in o..Len(text) :
        /\ i = Len(text) \/ text[i + 1] \in {carriageReturn, lineFeed}
        /\ \A j \in (o + 1)..i : text[j] \notin {carriageReturn, lineFeed}

\* C10: with a range, every edit overlaps the range, and the text before and
\* after the lines enclosing the range is unchanged.
C10_EditsWithinRange ==
    range # NoRange =>
        LET rangeEnd == range.offset + range.length
            before == LineStart(documentText, range.offset)
            after == Len(documentText) - LineEnd(documentText, rangeEnd)
        IN  /\ \A i \in DOMAIN editOperations :
                  /\ editOperations[i].offset < rangeEnd
                  /\ editOperations[i].offset + editOperations[i].length > range.offset
            /\ Formatted =>
                  /\ Len(formatted) >= before + after
                  /\ SubSeq(formatted, 1, before) = SubSeq(documentText, 1, before)
                  /\ SubSeq(formatted, Len(formatted) - after + 1, Len(formatted))
                       = SubSeq(documentText, Len(documentText) - after + 1,
                                Len(documentText))

\* C10 witness: the range kept some edits of the enclosing lines and dropped
\* others, and the kept ones were applied.
C10_Witness ==
    /\ Formatted
    /\ range # NoRange
    /\ Len(editOperations) >= 1
    /\ Len(format(documentText, NoRange, options)) > Len(editOperations)

-----------------------------------------------------------------------------
(* Specification SpecJson: format on well-formed JSON documents without     *)
(* comments, written with arbitrary white space between the tokens.         *)

\* tokens per JSON document
MaxTokens == 8

\* length of the white-space pattern repeated over the gaps of a document
MaxGapPattern == 2

JsonScalars == { <<<<digit0 + 1>>>>, <<<<doubleQuote, a, doubleQuote>>>> }

JsonKey == <<doubleQuote, a, doubleQuote>>

\* JsonValuesOf(k): the token sequences of the JSON values of exactly k tokens;
\* JsonItemsOf(k, key): the comma-separated lists of k tokens whose items are
\* values, each preceded by the tokens key
RECURSIVE JsonValuesOf(_), JsonItemsOf(_, _)
JsonValuesOf(k) ==
    IF k < 1 THEN {}
    ELSE IF k = 1 THEN JsonScalars
    ELSE IF k = 2 THEN { <<<<openBracket>>, <<closeBracket>>>>,
                         <<<<openBrace>>, <<closeBrace>>>> }
    ELSE { <<<<openBracket>>>> \o items \o <<<<closeBracket>>>> :
             items \in JsonItemsOf(k - 2, << >>) }
         \cup
         { <<<<openBrace>>>> \o items \o <<<<closeBrace>>>> :
             items \in JsonItemsOf(k - 2, <<JsonKey, <<colon>>>>) }

JsonItemsOf(k, key) ==
    LET rest == k - Len(key)
    IN  { key \o value : value \in JsonValuesOf(rest) }
        \cup
        UNION { { key \o value \o <<<<comma>>>> \o items :
                    value \in JsonValuesOf(m),
                    items \in JsonItemsOf(rest - m - 1, key) } :
                m \in 1..(rest - 2) }

JsonDocuments == UNION { JsonValuesOf(k) : k \in 1..MaxTokens }

GapChoices == { << >>, <<space>>, <<lineFeed>>, <<carriageReturn>> }

GapPatterns == SeqsUpTo(GapChoices, MaxGapPattern) \ { << >> }

\* the text of the tokens from index i on, gap number j written as the
\* pattern's element j modulo its length
RECURSIVE WriteTokens(_, _, _)
WriteTokens(lexemes, pattern, i) ==
    LET gap == pattern[((i - 1) % Len(pattern)) + 1]
    IN  IF i > Len(lexemes)
        THEN gap
        ELSE gap \o lexemes[i] \o WriteTokens(lexemes, pattern, i + 1)

JsonTexts ==
    { WriteTokens(doc, pattern, 1) : doc \in JsonDocuments, pattern \in GapPatterns }

JsonOptions ==
    [ tabSize : {2},
      insertSpaces : BOOLEAN,
      eol : {<<lineFeed>>, <<carriageReturn, lineFeed>>},
      insertFinalNewline : BOOLEAN,
      keepLines : {FALSE} ]

InitJson ==
    /\ documentText \in JsonTexts
    /\ options \in JsonOptions
    /\ range = NoRange
    /\ editOperations = << >>
    /\ formatted = << >>
    /\ reformatted = << >>
    /\ pc = "format"
    /\ ScannerIdle

NextJson == Format \/ Apply

SpecJson == InitJson /\ [][NextJson]_vars

-----------------------------------------------------------------------------
(* The reference layout of a token sequence. *)

WalkedLexemes(text) ==
    LET toks == SelectTokens(AllTokens(text), WalkedKinds \ {EOF})
    IN  [i \in DOMAIN toks |-> Lexeme(text, toks[i])]

Times(str, k) == Concat([i \in 1..k |-> str])

\* one indent unit: tabSize spaces, or a tab
IndentUnit(opts) ==
    IF opts.insertSpaces THEN Times(<<space>>, opts.tabSize) ELSE <<tab>>

\* the layout of the tokens from index i on, at nesting depth `depth`: an
\* item after an opening bracket or a comma, and a closing bracket of a
\* non-empty container, start a line indented by their depth; a value
\* follows its colon after one space; nothing else is put between tokens
RECURSIVE LayoutFrom(_, _, _, _, _)
LayoutFrom(lexemes, i, depth, eol, unit) ==
    IF i > Len(lexemes) THEN << >>
    ELSE
    LET tok == lexemes[i]
        prev == IF i > 1 THEN lexemes[i - 1] ELSE << >>
        closes == tok \in { <<closeBrace>>, <<closeBracket>> }
        afterOpen == prev \in { <<openBrace>>, <<openBracket>> }
        here == IF closes /\ ~afterOpen THEN depth - 1
                ELSE IF ~closes /\ afterOpen THEN depth + 1
                ELSE depth
        newLine == eol \o Times(unit, here)
        gap == IF i = 1 THEN << >>
               ELSE IF closes THEN (IF afterOpen THEN << >> ELSE newLine)
               ELSE IF afterOpen \/ prev = <<comma>> THEN newLine
               ELSE IF prev = <<colon>> THEN <<space>>
               ELSE << >>
    IN  gap \o tok \o LayoutFrom(lexemes, i + 1, here, eol, unit)

ReferenceLayout(text, eol, opts) ==
    LayoutFrom(WalkedLexemes(text), 1, 0, eol, IndentUnit(opts))

\* the first line break of text (\r\n, \r or \n), or opts.eol if it has none
DetectedEOL(text, opts) ==
    LET breaks == { i \in DOMAIN text : text[i] \in {carriageReturn, lineFeed} }
        first == CHOOSE i \in breaks : \A j \in breaks : i <= j
    IN  IF breaks = {} THEN opts.eol
        ELSE IF text[first] = lineFeed THEN <<lineFeed>>
        ELSE IF first < Len(text) /\ text[first + 1] = lineFeed
        THEN <<carriageReturn, lineFeed>>
        ELSE <<carriageReturn>>

\* C9: with keepLines = false and no range, the formatted text of a
\* well-formed JSON document without comments is the reference layout of its
\* tokens, with no leading or trailing white space, whatever the white space
\* of the input (so its line breaks are the EOL of the options).
C9_ReferenceLayout ==
    (Formatted /\ ~options.keepLines /\ range = NoRange) =>
        formatted = ReferenceLayout(documentText, options.eol, options)

\* C9 as amended: the line breaks of the layout are the first line break of
\* the input when it has one (options.eol otherwise), and one such line
\* break follows the last token when insertFinalNewline is set.
C9_ReferenceLayoutDetectedEOL ==
    (Formatted /\ ~options.keepLines /\ range = NoRange) =>
        LET eol == DetectedEOL(documentText, options)
        IN  formatted = ReferenceLayout(documentText, eol, options)
                        \o (IF options.insertFinalNewline THEN eol ELSE << >>)

\* C9 witness: a document nested two deep, written with \r line breaks, was
\* formatted with insertFinalNewline and changed.
C9_Witness ==
    /\ Formatted
    /\ options.insertFinalNewline
    /\ editOperations # << >>
    /\ \E i \in DOMAIN documentText : documentText[i] = carriageReturn
    /\ \E i \in 1..(Len(documentText) - 5) :
          SubSeq(documentText, i, i + 5)
            = <<openBracket, carriageReturn, openBrace, carriageReturn,
                doubleQuote, a>>

-----------------------------------------------------------------------------
(* The final line break. *)

\* the offset just after the last token of text that is not white space, a
\* line break or EOF (0 when it has none)
LastTokenEnd(text) ==
    LET toks == SelectTokens(AllTokens(text), WalkedKinds \ {EOF})
    IN  IF toks = << >> THEN 0
        ELSE toks[Len(toks)].offset + toks[Len(toks)].length

WellFormedTokens(text) ==
    \A i \in DOMAIN AllTokens(text) : ~IsMalformed(AllTokens(text)[i])

\* C11: with insertFinalNewline = true, keepLines = false and no range, the
\* formatted text of a non-empty document without Unknown tokens and scan
\* errors ends with exactly one EOL: its last token is followed by a single
\* EOL and nothing else.
C11_FinalNewline ==
    ( /\ Formatted
      /\ options.insertFinalNewline
      /\ ~options.keepLines
      /\ range = NoRange
      /\ Len(documentText) > 0
      /\ WellFormedTokens(documentText) ) =>
        LET eol == DetectedEOL(documentText, options)
            end == LastTokenEnd(formatted)
        IN  substring(formatted, end, Len(formatted)) = eol

-----------------------------------------------------------------------------
(* Specification SpecTrivia: a scanner created with or without ignoreTrivia, *)
(* driven by scan() calls.                                                   *)

InitTrivia ==
    /\ \E text \in ScanTexts, ignoreTrivia \in BOOLEAN :
          scanner = createScanner(text, ignoreTrivia)
    /\ scanned = << >>
    /\ FormatIdle

NextTrivia == Scan

SpecTrivia == InitTrivia /\ [][NextTrivia]_vars

TriviaKinds == {LineCommentTrivia, BlockCommentTrivia, LineBreakTrivia, Trivia}

\* C12: scanning reaches EOF and stays there: a scan() made while the
\* position is below len(text) consumes at least one character, a scan()
\* made after EOF was returned returns EOF again and leaves the position, the
\* token offset and the token length as they were, and EOF is among the
\* first len(text) + 1 tokens returned.
C12_ScanReachesEOF ==
    /\ [][ /\ getPosition(scanner) < scanner.len =>
                getPosition(scanner') > getPosition(scanner)
           /\ ReachedEOF =>
                /\ getToken(scanner') = EOF
                /\ getPosition(scanner') = getPosition(scanner)
                /\ getTokenOffset(scanner') = getTokenOffset(scanner)
                /\ getTokenLength(scanner') = getTokenLength(scanner) ]_vars
    /\ [](Len(scanned) > scanner.len =>
            \E i \in 1..(scanner.len + 1) : scanned[i].kind = EOF)

\* C12 witness: a scan() was made after EOF had been returned for a text of
\* the greatest length that holds a comment and another token.
C12_Witness ==
    /\ EOFCount(scanned) = MaxScansAtEOF
    /\ scanner.len = MaxLen
    /\ \E i, j \in DOMAIN AllTokens(scanner.text) :
          /\ AllTokens(scanner.text)[i].kind = BlockCommentTrivia
          /\ AllTokens(scanner.text)[j].kind = NumericLiteral

\* the tokens but the trivia that a trivia-aware scanner returns on text
NonTriviaTokens(text) == SelectTokens(AllTokens(text), (1..17) \ TriviaKinds)

\* C13: a scanner created with ignoreTrivia = true returns no Trivia,
\* LineBreakTrivia, LineCommentTrivia or BlockCommentTrivia, and the tokens
\* it returns (kind, offset, length, value, error, start line and start
\* character) are those a trivia-aware scanner returns on the same text with
\* these four kinds removed.
C13_IgnoreTriviaEquivalent ==
    scanner.ignoreTrivia =>
        LET expected == NonTriviaTokens(scanner.text)
        IN  /\ \A i \in DOMAIN scanned :
                  /\ scanned[i].kind \notin TriviaKinds
                  /\ IF i <= Len(expected)
                     THEN scanned[i] = expected[i]
                     ELSE scanned[i].kind = EOF
            /\ ReachedEOF => Len(scanned) >= Len(expected)

\* C13 witness: with ignoreTrivia, EOF was returned for a text in which a
\* comment and a line break precede a token.
C13_Witness ==
    /\ scanner.ignoreTrivia
    /\ ReachedEOF
    /\ Len(scanned) >= 2
    /\ scanned[1].kind # EOF
    /\ scanned[1].startLine > 0
    /\ \E i \in DOMAIN AllTokens(scanner.text) :
          /\ AllTokens(scanner.text)[i].kind \in {LineCommentTrivia, BlockCommentTrivia}
          /\ AllTokens(scanner.text)[i].offset < scanned[1].offset

\* the text before offset off
Before(text, off) == SubSeq(text, 1, off)

\* the offsets just after the line breaks of text, \r\n being one line break
LineBreakEnds(text) ==
    { i \in DOMAIN text :
        \/ text[i] = lineFeed
        \/ text[i] = carriageReturn
           /\ ~(i < Len(text) /\ text[i + 1] = lineFeed) }

LastLineStart(text) ==
    IF LineBreakEnds(text) = {} THEN 0
    ELSE CHOOSE i \in LineBreakEnds(text) : \A j \in LineBreakEnds(text) : j <= i

\* C14: for every token returned (EOF included, with or without
\* ignoreTrivia), getTokenStartLine() is the number of line breaks in
\* text[0, tokenOffset) and getTokenStartCharacter() is tokenOffset minus the
\* offset just after the last of them (0 if none).
C14_LineAndCharacter ==
    \A i \in DOMAIN scanned :
        LET before == Before(scanner.text, scanned[i].offset)
        IN  /\ scanned[i].startLine = Cardinality(LineBreakEnds(before))
            /\ scanned[i].startCharacter = scanned[i].offset - LastLineStart(before)

-----------------------------------------------------------------------------
(* Specification SpecLex: a trivia-aware scanner on texts made of white     *)
(* space and line breaks, of string characters, of number characters, and   *)
(* of words and structural characters.                                      *)

\* longest text of white space and line breaks
MaxTriviaLen == 4

\* longest text of string characters
MaxStringLen == 4

\* longest text of number characters
MaxNumberLen == 4

\* most pieces of a text of words and structural characters
MaxWordPieces == 3

TriviaAlphabet == { space, tab, lineFeed, carriageReturn, a }

\* backspace (U+0008) is the raw control character that is no line break
StringAlphabet ==
    { doubleQuote, lineFeed, carriageReturn, backspace, backslash, a }

NumberAlphabet == { digit0, digit0 + 1, minus, dot, e, E, plus }

\* true, false, null, t, True, and one-character pieces
WordPieces ==
    { <<t, r, u, e>>, <<f, a, 108, 115, e>>, <<n, u, 108, 108>>,
      <<t>>, <<84, r, u, e>>, <<digit0 + 1>>, <<minus>>, <<dot>>, <<space>>,
      <<openBrace>>, <<closeBrace>>, <<openBracket>>, <<closeBracket>>,
      <<colon>>, <<comma>>, <<lineFeed>>, <<doubleQuote>>, <<slash>> }

\* a quote, \u, two hexadecimal digits, a letter that is none, \n and \v
EscapePieces ==
    { <<doubleQuote>>, <<backslash, u>>, <<a, a>>, <<103>>, <<backslash, n>>,
      <<backslash, 118>> }

\* pieces per text with escapes
MaxEscapePieces == 5

LexTexts ==
    SeqsUpTo(TriviaAlphabet, MaxTriviaLen)
    \cup SeqsUpTo(StringAlphabet, MaxStringLen)
    \cup SeqsUpTo(NumberAlphabet, MaxNumberLen)
    \cup TextsOf(WordPieces, MaxWordPieces)
    \cup TextsOf(EscapePieces, MaxEscapePieces)

InitLex ==
    /\ \E text \in LexTexts : scanner = createScanner(text, FALSE)
    /\ scanned = << >>
    /\ FormatIdle

NextLex == Scan

SpecLex == InitLex /\ [][NextLex]_vars

-----------------------------------------------------------------------------
(* Lexical claims. *)

LexemeOf(i) == Lexeme(scanner.text, scanned[i])

\* the character of the text at offset, NaN outside it
CharAt(offset) == charCodeAt(scanner.text, offset)

EndOf(i) == scanned[i].offset + scanned[i].length

HasLineBreak(str) == \E i \in DOMAIN str : str[i] \in {lineFeed, carriageReturn}

\* C15: outside strings and comments each of \n, \r and \r\n is exactly one
\* LineBreakTrivia token and advances the line counter by one; \r\n is one
\* token of length 2 and \n\r two tokens; a Trivia token is a maximal run of
\* spaces and tabs, so that no two Trivia tokens are adjacent.
C15_LineBreaksAndWhiteSpace ==
    \A i \in DOMAIN scanned :
        /\ scanned[i].kind = LineBreakTrivia =>
              /\ LexemeOf(i) \in { <<lineFeed>>, <<carriageReturn>>,
                                   <<carriageReturn, lineFeed>> }
              /\ LexemeOf(i) = <<carriageReturn>> => CharAt(EndOf(i)) # lineFeed
              /\ i < Len(scanned) =>
                    scanned[i + 1].startLine = scanned[i].startLine + 1
        /\ scanned[i].kind \notin { LineBreakTrivia, StringLiteral,
                                    LineCommentTrivia, BlockCommentTrivia } =>
              ~HasLineBreak(LexemeOf(i))
        /\ scanned[i].kind = Trivia =>
              /\ scanned[i].length > 0
              /\ \A j \in DOMAIN LexemeOf(i) : LexemeOf(i)[j] \in {space, tab}
              /\ CharAt(EndOf(i)) \notin {space, tab}
              /\ CharAt(scanned[i].offset - 1) \notin {space, tab}
              /\ i < Len(scanned) => scanned[i + 1].kind # Trivia

\* C15 witness: a text with \r\n and a run of a space and a tab was scanned
\* to its end.
C15_Witness ==
    /\ ReachedEOF
    /\ \E i, j \in DOMAIN scanned :
          /\ scanned[i].kind = LineBreakTrivia /\ scanned[i].length = 2
          /\ scanned[j].kind = Trivia /\ scanned[j].length = 2
          /\ LexemeOf(j) \in { <<space, tab>>, <<tab, space>> }

\* a raw character U+0000..U+001F that is no line break
HasControlCharacter(str) ==
    \E i \in DOMAIN str : str[i] >= 0 /\ str[i] <= 31 /\ ~isLineBreak(str[i])

\* C16: a raw line break inside a string ends the StringLiteral immediately
\* before it with UnexpectedEndOfString, and the next token is the
\* LineBreakTrivia; any other raw character U+0000..U+001F stays inside the
\* string, which continues to its closing quote and carries InvalidCharacter.
C16_RawCharactersInStrings ==
    \A i \in DOMAIN scanned :
        scanned[i].kind = StringLiteral =>
            /\ ~HasLineBreak(LexemeOf(i))
            /\ scanned[i].error = UnexpectedEndOfString
                 /\ EndOf(i) < scanner.len /\ i < Len(scanned) =>
                  /\ isLineBreak(CharAt(EndOf(i)))
                  /\ scanned[i + 1].kind = LineBreakTrivia
                  /\ scanned[i + 1].offset = EndOf(i)
            /\ scanned[i].error # UnexpectedEndOfString =>
                  scanned[i].length >= 2
            /\ HasControlCharacter(LexemeOf(i))
                 /\ scanned[i].error # UnexpectedEndOfString =>
                  /\ scanned[i].error = InvalidCharacter
                  /\ LexemeOf(i)[scanned[i].length] = doubleQuote

\* the end of the maximal run of digits of the scanned text that starts at
\* offset from
DigitRunEnd(from) ==
    CHOOSE k \in from..scanner.len :
        /\ ~isDigit(CharAt(k))
        /\ \A m \in from..(k - 1) : isDigit(CharAt(m))

\* the parts of -?(0|[1-9][0-9]*)(\.[0-9]+)?([eE][+-]?[0-9]+)? matched at
\* offset from, where a digit stands: the ends of the integer part, of the
\* fraction and of the exponent, and the two ways the match is cut short
IntegerStart(from) == IF CharAt(from) = minus THEN from + 1 ELSE from

IntegerEnd(from) ==
    IF CharAt(IntegerStart(from)) = digit0
    THEN IntegerStart(from) + 1
    ELSE DigitRunEnd(IntegerStart(from))

DotWithoutDigit(from) ==
    CharAt(IntegerEnd(from)) = dot /\ ~isDigit(CharAt(IntegerEnd(from) + 1))

FractionEnd(from) ==
    IF CharAt(IntegerEnd(from)) = dot /\ isDigit(CharAt(IntegerEnd(from) + 1))
    THEN DigitRunEnd(IntegerEnd(from) + 1)
    ELSE IntegerEnd(from)

ExponentDigits(from) ==
    IF CharAt(FractionEnd(from) + 1) \in {plus, minus}
    THEN FractionEnd(from) + 2
    ELSE FractionEnd(from) + 1

ExponentWithoutDigit(from) ==
    /\ CharAt(FractionEnd(from)) \in {e, E}
    /\ ~isDigit(CharAt(ExponentDigits(from)))

NumberEnd(from) ==
    IF CharAt(FractionEnd(from)) \in {e, E} /\ isDigit(CharAt(ExponentDigits(from)))
    THEN DigitRunEnd(ExponentDigits(from))
    ELSE FractionEnd(from)

\* C17: a NumericLiteral without error is the longest prefix of the rest of
\* the text that matches -?(0|[1-9][0-9]*)(\.[0-9]+)?([eE][+-]?[0-9]+)?; a '.'
\* or an exponent marker with its optional sign that no digit follows gives a
\* NumericLiteral with UnexpectedEndOfNumber; a leading zero followed by
\* digits gives two adjacent NumericLiteral tokens, also after a minus.
C17_NumericLiterals ==
    \A i \in DOMAIN scanned :
        scanned[i].kind = NumericLiteral =>
            LET from == scanned[i].offset
            IN  /\ isDigit(CharAt(IntegerStart(from)))
                /\ scanned[i].error \in {None, UnexpectedEndOfNumber}
                /\ scanned[i].error = UnexpectedEndOfNumber <=>
                      \/ DotWithoutDigit(from)
                      \/ ~DotWithoutDigit(from) /\ ExponentWithoutDigit(from)
                /\ scanned[i].error = None => EndOf(i) = NumberEnd(from)
                /\ CharAt(IntegerStart(from)) = digit0
                     /\ isDigit(CharAt(IntegerStart(from) + 1))
                     /\ i < Len(scanned) =>
                      /\ EndOf(i) = IntegerStart(from) + 1
                      /\ scanned[i + 1].kind = NumericLiteral
                      /\ scanned[i + 1].offset = EndOf(i)

\* C17 witness: a text was scanned to its end that has a NumericLiteral with a
\* one-digit integer part, a signed exponent and no error.
C17_Witness ==
    /\ ReachedEOF
    /\ \E i \in DOMAIN scanned :
          /\ scanned[i].kind = NumericLiteral
          /\ scanned[i].error = None
          /\ scanned[i].length = MaxNumberLen
          /\ LexemeOf(i)[2] \in {e, E}
          /\ LexemeOf(i)[3] \in {plus, minus}

\* a token starts at a '-' that no digit follows: it is the Unknown token '-'
MinusWithoutDigitIsUnknown ==
    \A i \in DOMAIN scanned :
        CharAt(scanned[i].offset) = minus
          /\ ~isDigit(CharAt(scanned[i].offset + 1)) =>
            /\ scanned[i].kind = Unknown
            /\ scanned[i].length = 1
            /\ scanned[i].value = <<minus>>

\* a token starts at a '.0' that ends the text, as in the text '.0'
StartsDotZero(i) ==
    /\ CharAt(scanned[i].offset) = dot
    /\ CharAt(scanned[i].offset + 1) = digit0
    /\ scanned[i].offset + 2 = scanner.len

\* C18: a '-' not followed by a digit is scanned as an Unknown token, and
\* '.0' is scanned as an Unknown token for the '.' followed by a
\* NumericLiteral token for the '0'.
C18_MinusAndDotZero ==
    /\ MinusWithoutDigitIsUnknown
    /\ \A i \in DOMAIN scanned :
          StartsDotZero(i) =>
              /\ scanned[i].kind = Unknown
              /\ scanned[i].length = 1
              /\ i < Len(scanned) =>
                    /\ scanned[i + 1].kind = NumericLiteral
                    /\ scanned[i + 1].offset = scanned[i].offset + 1
                    /\ scanned[i + 1].length = 1

\* C18 as the scanner has it: a '-' not followed by a digit is scanned as an
\* Unknown token, and '.0' is scanned as one Unknown token whose value is '.0'.
C18_MinusAndDotZeroOneToken ==
    /\ MinusWithoutDigitIsUnknown
    /\ \A i \in DOMAIN scanned :
          StartsDotZero(i) =>
              /\ scanned[i].kind = Unknown
              /\ scanned[i].error = None
              /\ scanned[i].length = 2
              /\ scanned[i].value = <<dot, digit0>>
              /\ i < Len(scanned) => scanned[i + 1].kind = EOF

\* C18 witness: the text '-.0' was scanned to its end, the '-' and the '.0'
\* being a token each.
C18_Witness ==
    /\ ReachedEOF
    /\ scanner.text = <<minus, dot, digit0>>
    /\ Len(scanned) >= 3
    /\ scanned[1].kind = Unknown /\ scanned[1].length = 1
    /\ scanned[2].kind = Unknown /\ scanned[2].offset = 1

\* the characters that end a run: space, tab, CR, LF, { } [ ] " : , /
Delimiters ==
    { space, tab, carriageReturn, lineFeed, openBrace, closeBrace,
      openBracket, closeBracket, doubleQuote, colon, comma, slash }

\* the end of the maximal run of characters that are no delimiters and that
\* starts at offset from
RunEnd(from) ==
    CHOOSE k \in from..scanner.len :
        /\ k = scanner.len \/ CharAt(k) \in Delimiters
        /\ \A m \in from..(k - 1) : CharAt(m) \notin Delimiters

\* a token starts at a character that is no delimiter, no digit and no '-'
StartsRun(i) ==
    /\ scanned[i].offset < scanner.len
    /\ CharAt(scanned[i].offset) \notin Delimiters \cup {minus}
    /\ ~isDigit(CharAt(scanned[i].offset))

\* the kind of the token that is the one character code, if it has one
StructuralKind(code) ==
    CASE code = openBrace -> OpenBraceToken
      [] code = closeBrace -> CloseBraceToken
      [] code = openBracket -> OpenBracketToken
      [] code = closeBracket -> CloseBracketToken
      [] code = colon -> ColonToken
      [] code = comma -> CommaToken
      [] OTHER -> Unknown

\* C19: a maximal run of characters that are none of space, tab, CR, LF,
\* { } [ ] " : , / and that does not start with a digit or '-' is one token:
\* TrueKeyword, FalseKeyword or NullKeyword exactly when the run is true,
\* false or null, otherwise Unknown whose value is the whole run; each of
\* { } [ ] : , is a one-character token of its own kind.
C19_WordsAndStructuralTokens ==
    \A i \in DOMAIN scanned :
        /\ StartsRun(i) =>
              /\ EndOf(i) = RunEnd(scanned[i].offset)
              /\ scanned[i].value = LexemeOf(i)
              /\ scanned[i].error = None
              /\ scanned[i].kind = TrueKeyword <=> LexemeOf(i) = <<116, 114, 117, 101>>
              /\ scanned[i].kind = FalseKeyword <=>
                    LexemeOf(i) = <<102, 97, 108, 115, 101>>
              /\ scanned[i].kind = NullKeyword <=> LexemeOf(i) = <<110, 117, 108, 108>>
              /\ scanned[i].kind \in {TrueKeyword, FalseKeyword, NullKeyword, Unknown}
        /\ scanned[i].kind \in {TrueKeyword, FalseKeyword, NullKeyword} => StartsRun(i)
        /\ StructuralKind(CharAt(scanned[i].offset)) # Unknown =>
              /\ scanned[i].kind = StructuralKind(CharAt(scanned[i].offset))
              /\ scanned[i].length = 1
        /\ scanned[i].kind \in { OpenBraceToken, CloseBraceToken, OpenBracketToken,
                                 CloseBracketToken, ColonToken, CommaToken } =>
              scanned[i].kind = StructuralKind(CharAt(scanned[i].offset))

\* C19 witness: a text was scanned to its end that has the keyword null, an
\* Unknown word of several characters and a one-character structural token.
C19_Witness ==
    /\ ReachedEOF
    /\ \E i, j, k \in DOMAIN scanned :
          /\ scanned[i].kind = NullKeyword
          /\ scanned[j].kind = Unknown /\ scanned[j].length >= 2 /\ StartsRun(j)
          /\ StructuralKind(CharAt(scanned[k].offset)) # Unknown
          /\ scanned[k].kind # Unknown

\* the offset of the next \r or \n at or after offset from, or the end of the
\* text
LineCommentEnd(from) ==
    CHOOSE k \in from..scanner.len :
        /\ k = scanner.len \/ isLineBreak(CharAt(k))
        /\ \A m \in from..(k - 1) : ~isLineBreak(CharAt(m))

\* the offsets at or after from where a closing '*/' stands
ClosingOffsets(from) ==
    { k \in from..(scanner.len - 2) :
        CharAt(k) = asterisk /\ CharAt(k + 1) = slash }

Least(offsets) == CHOOSE k \in offsets : \A m \in offsets : k <= m

\* C20: a '//' comment is a LineCommentTrivia token that ends immediately
\* before the next \r or \n or at the end of the text; a '/*' comment is a
\* BlockCommentTrivia token without scan error exactly when a closing '*/'
\* follows, and then it ends right after the first such '*/', and otherwise it
\* has UnexpectedEndOfComment and ends at the end of the text; a '/' followed
\* by neither '/' nor '*' is an Unknown token of length 1.
C20_Comments ==
    \A i \in DOMAIN scanned :
        LET from == scanned[i].offset
        IN  /\ CharAt(from) = slash /\ CharAt(from + 1) = slash =>
                  /\ scanned[i].kind = LineCommentTrivia
                  /\ scanned[i].error = None
                  /\ EndOf(i) = LineCommentEnd(from + 2)
            /\ CharAt(from) = slash /\ CharAt(from + 1) = asterisk =>
                  /\ scanned[i].kind = BlockCommentTrivia
                  /\ scanned[i].error = None <=> ClosingOffsets(from + 2) # {}
                  /\ ClosingOffsets(from + 2) # {} =>
                        EndOf(i) = Least(ClosingOffsets(from + 2)) + 2
                  /\ ClosingOffsets(from + 2) = {} =>
                        /\ scanned[i].error = UnexpectedEndOfComment
                        /\ EndOf(i) = scanner.len
            /\ CharAt(from) = slash /\ CharAt(from + 1) \notin {slash, asterisk} =>
                  /\ scanned[i].kind = Unknown
                  /\ scanned[i].length = 1
            /\ scanned[i].kind \in {LineCommentTrivia, BlockCommentTrivia} =>
                  CharAt(from) = slash

\* the value of the hexadecimal digit code
HexDigitValue(code) ==
    IF code >= 48 /\ code <= 57 THEN code - 48
    ELSE IF code >= 65 /\ code <= 70 THEN code - 55
    ELSE code - 87

\* the character that the escape \code stands for
EscapedCharacter(code) ==
    CASE code = 98 -> 8
      [] code = 102 -> 12
      [] code = 110 -> 10
      [] code = 114 -> 13
      [] code = 116 -> 9
      [] OTHER -> code

\* the content of a well-formed string whose characters between the quotes
\* are str, decoded from offset p on
RECURSIVE DecodedFrom(_, _)
DecodedFrom(str, p) ==
    IF p > Len(str) THEN << >>
    ELSE IF str[p] # backslash THEN <<str[p]>> \o DecodedFrom(str, p + 1)
    ELSE IF str[p + 1] = 117
    THEN << 4096 * HexDigitValue(str[p + 2]) + 256 * HexDigitValue(str[p + 3])
            + 16 * HexDigitValue(str[p + 4]) + HexDigitValue(str[p + 5]) >>
         \o DecodedFrom(str, p + 6)
    ELSE <<EscapedCharacter(str[p + 1])>> \o DecodedFrom(str, p + 2)

DecodedContent(lexeme) == DecodedFrom(SubSeq(lexeme, 2, Len(lexeme) - 1), 1)

\* C21: after every scan() getTokenValue() is the decoded content for a
\* StringLiteral, the raw lexeme for every other token that is no trivia
\* (structural tokens, keywords, numbers, Unknown), and the empty string for
\* trivia tokens and EOF.
C21_TokenValue ==
    \A i \in DOMAIN scanned :
        /\ scanned[i].kind = StringLiteral /\ scanned[i].error = None =>
              scanned[i].value = DecodedContent(LexemeOf(i))
        /\ scanned[i].kind \in TriviaKinds \cup {EOF} => scanned[i].value = << >>
        /\ scanned[i].kind \notin TriviaKinds \cup {EOF, StringLiteral} =>
              scanned[i].value = LexemeOf(i)

-----------------------------------------------------------------------------
(* Specification SpecOptions: format with options that may be omitted. *)

OptionPieces ==
    { <<openBracket>>, <<closeBracket>>, <<digit0 + 1>>, <<lineFeed>>,
      <<carriageReturn>> }

\* pieces per document
MaxOptionPieces == 4

OptionTexts == TextsOf(OptionPieces, MaxOptionPieces)

\* the object obj without the properties names
Omit(obj, names) == [name \in DOMAIN obj \ names |-> obj[name]]

\* FormattingOptions objects in which tabSize, insertSpaces and eol are given
\* or omitted
OptionalOptions ==
    { Omit(obj, names) :
        obj \in [ tabSize : {2},
                  insertSpaces : BOOLEAN,
                  eol : {<<lineFeed>>, <<carriageReturn, lineFeed>>},
                  insertFinalNewline : BOOLEAN,
                  keepLines : {FALSE} ],
        names \in SUBSET {"tabSize", "insertSpaces", "eol"} }

InitOptions ==
    /\ documentText \in OptionTexts
    /\ options \in OptionalOptions
    /\ range = NoRange
    /\ editOperations = << >>
    /\ formatted = << >>
    /\ reformatted = << >>
    /\ pc = "format"
    /\ ScannerIdle

NextOptions == Format \/ Apply

SpecOptions == InitOptions /\ [][NextOptions]_vars

\* format has returned its edits
Returned == pc \in {"apply", "reformat", "done"}

\* content is what format puts between two tokens with the line break eol
\* and the indentation unit: one space, or line breaks followed by the
\* indentation of some level
IsLayout(content, eol, unit) ==
    \/ content = <<space>>
    \/ \E count, level \in 0..Len(content) :
          content = Times(eol, count) \o Times(unit, level)

LineBreakStrings == { <<lineFeed>>, <<carriageReturn>>, <<carriageReturn, lineFeed>> }

\* every edit returned is laid out with one line-break string and unit
IndentsWith(unit) ==
    \E eol \in LineBreakStrings :
        \A i \in DOMAIN editOperations :
            IsLayout(editOperations[i].content, eol, unit)

\* tabSize spaces, 4 when tabSize is omitted
SpacesUnit == Times(<<space>>, IF "tabSize" \in DOMAIN options THEN options.tabSize ELSE 4)

\* C22: when the options omit insertSpaces, format indents with spaces
\* (tabSize spaces per level, 4 when tabSize is omitted as well), as with
\* insertSpaces = true; a tab per level is used only when insertSpaces is
\* false.
C22_SpacesUnlessInsertSpacesFalse ==
    Returned =>
        /\ "insertSpaces" \notin DOMAIN options =>
              /\ IndentsWith(SpacesUnit)
              /\ editOperations =
                    format(documentText, range,
                           [name \in DOMAIN options \cup {"insertSpaces"} |->
                               IF name = "insertSpaces" THEN TRUE ELSE options[name]])
        /\ "insertSpaces" \in DOMAIN options =>
              IndentsWith(IF options.insertSpaces THEN SpacesUnit ELSE <<tab>>)

\* C22 as format has it: it indents with spaces (tabSize spaces per level, 4
\* when tabSize is omitted) only when insertSpaces is true, and with a tab
\* per level when insertSpaces is false or omitted.
C22_TabsUnlessInsertSpacesTrue ==
    Returned =>
        /\ "insertSpaces" \notin DOMAIN options => IndentsWith(<<tab>>)
        /\ "insertSpaces" \in DOMAIN options =>
              IndentsWith(IF options.insertSpaces THEN SpacesUnit ELSE <<tab>>)

\* C22 witness: format, given options without insertSpaces, has returned an
\* edit that indents by two levels.
C22_Witness ==
    /\ Returned
    /\ "insertSpaces" \notin DOMAIN options
    /\ \E i \in DOMAIN editOperations, eol \in LineBreakStrings :
          editOperations[i].content = eol \o <<tab, tab>>

\* every edit returned is laid out with the line-break string eol
BreaksLinesWith(eol) ==
    \E unit \in {<<tab>>, SpacesUnit} :
        \A i \in DOMAIN editOperations :
            IsLayout(editOperations[i].content, eol, unit)

\* options.eol is set
EOLIsSet == "eol" \in DOMAIN options /\ options.eol # << >>

\* options.eol if it is set, \n otherwise
EOLOfOptions == IF EOLIsSet THEN options.eol ELSE <<lineFeed>>

\* C23: the line-break string format inserts is options.eol whenever
\* options.eol is set; only when it is unset is it detected from the document
\* (the first \r\n, \r or \n found), and it is \n when the document has no
\* line break.
C23_OptionsEOLFirst ==
    Returned =>
        BreaksLinesWith(IF EOLIsSet
                        THEN options.eol
                        ELSE DetectedEOL(documentText, [eol |-> <<lineFeed>>]))

\* C23 as format has it: the line-break string format inserts is the first
\* \r\n, \r or \n found in the document, whether options.eol is set or not;
\* only when the document has no line break is it options.eol, and \n when
\* options.eol is unset as well.
C23_DocumentEOLFirst ==
    Returned =>
        BreaksLinesWith(DetectedEOL(documentText, [eol |-> EOLOfOptions]))

\* C23 witness: format, given an options.eol and a document with another
\* line break, has returned an edit that breaks a line.
C23_Witness ==
    /\ Returned
    /\ EOLIsSet
    /\ HasLineBreak(documentText)
    /\ DetectedEOL(documentText, options) # options.eol
    /\ \E i \in DOMAIN editOperations : HasLineBreak(editOperations[i].content)

-----------------------------------------------------------------------------
(* Specification SpecEdits: applyEdits on a text and a list of edits. *)

\* longest text that is edited, and most edits in a list
MaxEditTextLen == 3
MaxEdits == 2

\* the text abc... of length k, whose characters all differ
EditText(k) == [i \in 1..k |-> 96 + i]

\* the edits of a text of length k: a span inside the text and a content
EditsOf(k) ==
    { [offset |-> offset, length |-> length, content |-> content] :
        offset \in 0..k, length \in 0..k,
        content \in { << >>, <<120>>, <<121, 122>> } }

InitEdits ==
    /\ \E k \in 0..MaxEditTextLen :
          /\ documentText = EditText(k)
          /\ editOperations \in
                SeqsUpTo({ edit \in EditsOf(k) : edit.offset + edit.length <= k },
                         MaxEdits)
    /\ options = NoOptions
    /\ range = NoRange
    /\ formatted = << >>
    /\ reformatted = << >>
    /\ pc = "apply"
    /\ ScannerIdle

NextEdits == Apply

SpecEdits == InitEdits /\ [][NextEdits]_vars

\* applyEdits has returned
Applied == pc = "reformat"

\* the text from offset cursor on in which the span of each edit from the
\* i-th on is replaced by its content, every other character being kept
RECURSIVE ReplacedFrom(_, _, _, _)
ReplacedFrom(text, edits, i, cursor) ==
    IF i > Len(edits)
    THEN SubSeq(text, cursor + 1, Len(text))
    ELSE SubSeq(text, cursor + 1, edits[i].offset) \o edits[i].content
         \o ReplacedFrom(text, edits, i + 1,
                         IF edits[i].offset + edits[i].length > cursor
                         THEN edits[i].offset + edits[i].length
                         ELSE cursor)

SortedByOffset(edits) ==
    \A i \in 1..(Len(edits) - 1) : edits[i].offset <= edits[i + 1].offset

\* no two spans [offset, offset + length) have a character in common
NonOverlapping(edits) ==
    \A i, j \in DOMAIN edits :
        i < j => \/ edits[i].offset + edits[i].length <= edits[j].offset
                 \/ edits[j].offset + edits[j].length <= edits[i].offset

\* every edit ends where the next one starts, or before
EndsBeforeNext(edits) ==
    \A i \in 1..(Len(edits) - 1) :
        edits[i].offset + edits[i].length <= edits[i + 1].offset

\* C24: for an edit list that is sorted by offset and non-overlapping with
\* respect to the original text, applyEdits(text, edits) is the text in which
\* each span is replaced by its content and every other character is kept in
\* order; several inserts at the same offset appear in list order.
C24_ApplyEditsReplacesSpans ==
    (Applied /\ SortedByOffset(editOperations) /\ NonOverlapping(editOperations)) =>
        formatted = ReplacedFrom(documentText, editOperations, 1, 0)

\* C24 for edit lists in which every edit ends at or before the offset of the
\* next one (so that an insert at the offset of a replacement comes before it
\* in the list): applyEdits(text, edits) is the text in which each span is
\* replaced by its content and every other character is kept in order;
\* several inserts at the same offset appear in list order.
C24_ApplyEditsReplacesOrderedSpans ==
    (Applied /\ EndsBeforeNext(editOperations)) =>
        formatted = ReplacedFrom(documentText, editOperations, 1, 0)

\* C24 witness: applyEdits has applied two inserts of different contents at
\* the same offset inside the text.
C24_Witness ==
    /\ Applied
    /\ Len(editOperations) = 2
    /\ editOperations[1].offset = editOperations[2].offset
    /\ editOperations[1].offset \in 1..(Len(documentText) - 1)
    /\ editOperations[1].length = 0 /\ editOperations[2].length = 0
    /\ editOperations[1].content = <<120>>
    /\ editOperations[2].content = <<121, 122>>
    /\ formatted = SubSeq(documentText, 1, editOperations[1].offset)
                   \o <<120, 121, 122>>
                   \o SubSeq(documentText, editOperations[1].offset + 1,
                             Len(documentText))

-----------------------------------------------------------------------------
(* Further claims about the edits of format. *)

\* no edit of edits replaces a span of text by what the span already is
NoNoOpEdit(text, edits) ==
    \A i \in DOMAIN edits :
        edits[i].content
            # substring(text, edits[i].offset, edits[i].offset + edits[i].length)

\* C27: format returns no no-op edit: the content of every edit it returns
\* differs from documentText[offset, offset + length); so format returns the
\* empty list for a text that is already in the layout it produces.
C27_NoNoOpEdit ==
    /\ Returned => NoNoOpEdit(documentText, editOperations)
    /\ (Formatted /\ range = NoRange) =>
          format(formatted, range, options) = << >>

-----------------------------------------------------------------------------
(* Claims about the errors of string literals. *)

IsHexDigit(code) ==
    \/ code >= 48 /\ code <= 57
    \/ code >= 65 /\ code <= 70
    \/ code >= 97 /\ code <= 102

\* the characters that may follow a backslash: " \ / b f n r t
SimpleEscapes == { 34, 92, 47, 98, 102, 110, 114, 116 }

\* the offset after the closing quote of the string whose content starts at
\* offset p, if the string is well formed: closed by a quote before any raw
\* line break, raw control character or the end of the text, all of its
\* escapes being \" \\ \/ \b \f \n \r \t or \u and four hexadecimal digits;
\* -1 if it is not
RECURSIVE WellFormedStringEnd(_)
WellFormedStringEnd(p) ==
    IF p >= scanner.len THEN 0 - 1
    ELSE IF CharAt(p) = 34 THEN p + 1
    ELSE IF CharAt(p) = 92
    THEN IF CharAt(p + 1) \in SimpleEscapes THEN WellFormedStringEnd(p + 2)
         ELSE IF CharAt(p + 1) = 117
                 /\ \A k \in 2..5 : IsHexDigit(CharAt(p + k))
         THEN WellFormedStringEnd(p + 6)
         ELSE 0 - 1
    ELSE IF CharAt(p) <= 31 THEN 0 - 1
    ELSE WellFormedStringEnd(p + 1)

\* C28: a StringLiteral has ScanError.None exactly when it is closed by a
\* quote before any raw CR or LF and before the end of the text, each of its
\* escapes is one of \" \\ \/ \b \f \n \r \t or \u with four hexadecimal
\* digits, and it has no raw character in U+0000..U+001F (an error recorded
\* in a token is never cleared); its lexeme includes the opening quote and,
\* when there is one, the closing quote.
C28_StringErrors ==
    \A i \in DOMAIN scanned :
        scanned[i].kind = StringLiteral =>
            /\ scanned[i].error = None <=>
                  WellFormedStringEnd(scanned[i].offset + 1) # 0 - 1
            /\ scanned[i].error = None =>
                  EndOf(i) = WellFormedStringEnd(scanned[i].offset + 1)
            /\ CharAt(scanned[i].offset) = 34
            /\ scanned[i].error # UnexpectedEndOfString =>
                  /\ scanned[i].length >= 2
                  /\ CharAt(EndOf(i) - 1) = 34

\* C28 witness: a text was scanned to its end that has a closed string with
\* \u and four hexadecimal digits, no error and the decoded character as its
\* value.
C28_Witness ==
    /\ ReachedEOF
    /\ \E i \in DOMAIN scanned :
          /\ scanned[i].kind = StringLiteral
          /\ scanned[i].error = None
          /\ scanned[i].length = 8
          /\ scanned[i].value = <<43690>>

-----------------------------------------------------------------------------
(* Specification SpecPosition: a scanner driven by scan() and setPosition(). *)

PositionAlphabet ==
    { space, lineFeed, doubleQuote, slash, asterisk, digit0 + 1, a }

\* longest text of a scanner that is positioned, and the number of tokens
\* returned up to which setPosition is still called
MaxPositionLen == 3
MaxScansBeforeSetPosition == 1

InitPosition ==
    /\ \E text \in SeqsUpTo(PositionAlphabet, MaxPositionLen), ignoreTrivia \in BOOLEAN :
          scanner = createScanner(text, ignoreTrivia)
    /\ scanned = << >>
    /\ FormatIdle

\* scanner.setPosition(newPosition), 0 <= newPosition <= len(text)
SetPosition ==
    /\ pc \in {"scan", "positioned"}
    /\ Len(scanned) <= MaxScansBeforeSetPosition
    /\ \E newPosition \in 0..scanner.len :
          scanner' = setPosition(scanner, newPosition)
    /\ pc' = "positioned"
    /\ UNCHANGED << scanned, documentText, range, options, editOperations,
                    formatted, reformatted,
                    callVars >>

NextPosition == Scan \/ SetPosition

SpecPosition == InitPosition /\ [][NextPosition]_vars

\* kind, length, value and error of the token that a scanner of its own,
\* positioned at p right after its creation, returns
FirstTokenAt(text, ignoreTrivia, p) ==
    LET tok == Observed(scan(setPosition(createScanner(text, ignoreTrivia), p)))
    IN  [kind |-> tok.kind, offset |-> tok.offset, length |-> tok.length,
         value |-> tok.value, error |-> tok.error]

\* kind, offset, length, value and error of the token last returned
LastToken ==
    [kind |-> getToken(scanner), offset |-> getTokenOffset(scanner),
     length |-> getTokenLength(scanner), value |-> getTokenValue(scanner),
     error |-> getTokenError(scanner)]

\* after setPosition and until scan() is called, getToken() is Unknown,
\* getTokenValue() is empty and getTokenError() is None
ResetUntilScan ==
    pc = "positioned" =>
        /\ getToken(scanner) = Unknown
        /\ getTokenValue(scanner) = << >>
        /\ getTokenError(scanner) = None

\* setPosition leaves the line counter and the line-start offset unchanged
LinesUnchanged ==
    pc' = "positioned" =>
        /\ scanner'.lineNumber = scanner.lineNumber
        /\ scanner'.tokenLineStartOffset = scanner.tokenLineStartOffset

\* C29: after setPosition(p) with 0 <= p <= len(text), getToken() is Unknown,
\* getTokenValue() is empty and getTokenError() is None until scan() is
\* called; the next scan() returns a token that starts at offset p and whose
\* kind, length, value and error depend only on the text and p, not on what
\* was scanned before; setPosition leaves the line counter and the
\* line-start offset unchanged.
C29_SetPosition ==
    /\ []ResetUntilScan
    /\ [][LinesUnchanged]_vars
    /\ [][(pc = "positioned" /\ pc' = "scan") =>
              /\ getTokenOffset(scanner') = getPosition(scanner)
              /\ LastToken' = FirstTokenAt(scanner.text, scanner.ignoreTrivia,
                                           getPosition(scanner))]_vars

\* C29 as the scanner has it: as C29, but the token that the next scan()
\* returns starts at offset p when the scanner was created with
\* ignoreTrivia = false, and starts at or after p and is no trivia when it
\* was created with ignoreTrivia = true.
C29_SetPositionTrivia ==
    /\ []ResetUntilScan
    /\ [][LinesUnchanged]_vars
    /\ [][(pc = "positioned" /\ pc' = "scan") =>
              /\ ~scanner.ignoreTrivia =>
                    getTokenOffset(scanner') = getPosition(scanner)
              /\ scanner.ignoreTrivia =>
                    /\ getTokenOffset(scanner') >= getPosition(scanner)
                    /\ getToken(scanner') \notin TriviaKinds
              /\ LastToken' = FirstTokenAt(scanner.text, scanner.ignoreTrivia,
                                           getPosition(scanner))]_vars

\* C29 witness: a token with a scan error on a later line was returned, and
\* setPosition has then moved the scanner back to the start of the text.
C29_Witness ==
    /\ pc = "positioned"
    /\ scanned # << >>
    /\ scanned[Len(scanned)].error # None
    /\ scanner.lineNumber > 0
    /\ getPosition(scanner) = 0

-----------------------------------------------------------------------------
(* Claims about the scan error. *)

\* C30: getTokenError() describes only the token that the latest scan()
\* returned: every scan() resets the error before it scans, so the error of a
\* token is the one a scan of that token alone gives, and no error of an
\* earlier token leaks to a later one; with ignoreTrivia = true the
\* UnexpectedEndOfComment of a skipped unterminated block comment is never
\* seen, the scanner returning EOF with ScanError.None.
C30_ErrorOfLatestToken ==
    \A i \in DOMAIN scanned :
        /\ scanned[i].error =
              FirstTokenAt(scanner.text, FALSE, scanned[i].offset).error
        /\ scanned[i].kind = EOF => scanned[i].error = None
        /\ scanner.ignoreTrivia => scanned[i].error # UnexpectedEndOfComment

\* C30 witness: a scanner with ignoreTrivia = true has returned a token with
\* an error and then EOF, on a text that ends with an unterminated block
\* comment.
C30_Witness ==
    /\ scanner.ignoreTrivia
    /\ ReachedEOF
    /\ \E i \in DOMAIN scanned : scanned[i].error # None
    /\ \E j \in DOMAIN AllTokens(scanner.text) :
          AllTokens(scanner.text)[j].error = UnexpectedEndOfComment

-----------------------------------------------------------------------------
(* modify (main.ts) on arrays of numbers.                                  *)

\* the compact JSON encoding of a number of one digit
stringify(value) == <<digit0 + value>>

\* the numbers of the array that text holds, as tokens
arrayItems(text) ==
    SelectSeq(AllTokens(text), LAMBDA token : token.kind = NumericLiteral)

\* the edit of setProperty for the items of an array and the index of the
\* path: with isArrayInsertion the index is where the value is inserted, the
\* items from there on shifting right; otherwise the value replaces the item
\* at the index, or is appended when the index is the length of the array
\* or -1
arrayEdit(items, index, newProperty, separator, isArrayInsertion) ==
    IF Len(items) = 0
    THEN << [offset |-> 1, length |-> 0, content |-> separator \o newProperty] >>
    ELSE IF index = -1 \/ index >= Len(items)
    THEN << [offset |-> items[Len(items)].offset + items[Len(items)].length,
             length |-> 0,
             content |-> <<comma>> \o separator \o newProperty] >>
    ELSE IF isArrayInsertion
    THEN << [offset |-> items[index + 1].offset,
             length |-> 0,
             content |-> newProperty \o <<comma>> \o separator] >>
    ELSE << [offset |-> items[index + 1].offset,
             length |-> items[index + 1].length,
             content |-> newProperty] >>

\* edit.setProperty for a path [index] into an array of numbers at the root
\* of the document
setProperty(text, path, value, formattingOptions, getInsertionIndex, isArrayInsertion) ==
    arrayEdit(arrayItems(text), path[Len(path)], stringify(value),
              getEOL(formattingOptions, text) \o indentValueOf(formattingOptions),
              isArrayInsertion)

\* modify hands on options.formattingOptions and options.getInsertionIndex
\* and nothing else of the options: the parameters of setProperty it does not
\* pass are undefined
modify(text, path, value, opts) ==
    setProperty(text, path, value, opts.formattingOptions,
                property(opts, "getInsertionIndex", "undefined"), FALSE)

-----------------------------------------------------------------------------
(* Specification SpecModify: modify on an array of numbers, then           *)
(* applyEdits.                                                             *)

MaxItems == 3
MaxItemValue == 3

ItemLists == SeqsUpTo(1..MaxItemValue, MaxItems)

RECURSIVE ItemLines(_)
ItemLines(items) ==
    IF Len(items) = 0 THEN << >>
    ELSE <<lineFeed, space, space>> \o stringify(Head(items))
         \o (IF Len(items) > 1 THEN <<comma>> ELSE << >>)
         \o ItemLines(Tail(items))

\* the array of items, one item per line, indented by two spaces
ArrayText(items) == <<openBracket>> \o ItemLines(items) \o <<lineFeed, closeBracket>>

ModifyFormattingOptions ==
    [insertSpaces |-> TRUE, tabSize |-> 2, eol |-> <<lineFeed>>, keepLines |-> FALSE]

\* the options handed to modify; isArrayInsertion is optional
ModificationOptionsSet ==
    { [formattingOptions |-> ModifyFormattingOptions] }
    \cup { [formattingOptions |-> ModifyFormattingOptions, isArrayInsertion |-> flag] :
             flag \in BOOLEAN }

InitModify ==
    /\ \E items \in ItemLists :
          /\ documentText = ArrayText(items)
          /\ modifyPath \in { <<index>> : index \in -1..Len(items) }
    /\ modifyValue \in 1..MaxItemValue
    /\ options \in ModificationOptionsSet
    /\ range = NoRange
    /\ editOperations = << >>
    /\ formatted = << >>
    /\ reformatted = << >>
    /\ stopOffsets = {}
    /\ actuals = << >>
    /\ scanner = createScanner(<< >>, FALSE)
    /\ scanned = << >>
    /\ pc = "modify"

\* edits = modify(documentText, path, value, options)
Modify ==
    /\ pc = "modify"
    /\ editOperations' = modify(documentText, modifyPath, modifyValue, options)
    /\ pc' = "apply"
    /\ UNCHANGED << scanner, scanned, documentText, range, options,
                    formatted, reformatted, callVars >>

NextModify == Modify \/ Apply

SpecModify == InitModify /\ [][NextModify]_vars

\* the items of the array that modify was called on
ItemsOfDocument == CHOOSE items \in ItemLists : ArrayText(items) = documentText

\* items with value inserted before the item at index
InsertAt(items, index, value) ==
    SubSeq(items, 1, index) \o <<value>> \o SubSeq(items, index + 1, Len(items))

\* C25: modify with options.isArrayInsertion = true and a path that ends in
\* the index of an existing item of an array inserts the value at that index
\* and shifts the items from there on to the right: '[\n  2,\n  3\n]' with
\* path [0] and value 1 becomes '[\n  1,\n  2,\n  3\n]'.
C25_ArrayInsertion ==
    (/\ Applied
     /\ property(options, "isArrayInsertion", FALSE)
     /\ modifyPath[1] \in 0..(Len(ItemsOfDocument) - 1))
    => formatted = ArrayText(InsertAt(ItemsOfDocument, modifyPath[1], modifyValue))

-----------------------------------------------------------------------------
(* visit (impl/parser.ts): the callbacks of a visitor whose begin          *)
(* callbacks return false at the offsets stops.                            *)

\* a visit under way: its scanner, the callbacks invoked so far, the depth
\* of containers being skipped, and whether a syntax error ended it
startVisit(text) ==
    [ scanner |-> createScanner(text, FALSE),
      actuals |-> << >>,
      suppressedCallbacks |-> 0,
      failed |-> FALSE ]

\* invoke the callback id for the current token, unless inside a skipped
\* subtree
toNoArgVisit(v, id) ==
    IF v.suppressedCallbacks = 0
    THEN [v EXCEPT !.actuals =
                     Append(@, [ id |-> id,
                                 offset |-> getTokenOffset(v.scanner),
                                 length |-> getTokenLength(v.scanner) ])]
    ELSE v

\* a begin callback: when it returns false the subtree is skipped
toBeginVisit(v, id, stops) ==
    IF v.suppressedCallbacks > 0
    THEN [v EXCEPT !.suppressedCallbacks = @ + 1]
    ELSE IF getTokenOffset(v.scanner) \in stops
    THEN [toNoArgVisit(v, id) EXCEPT !.suppressedCallbacks = 1]
    ELSE toNoArgVisit(v, id)

\* an end callback: it fires for the container whose begin callback fired
toEndVisit(v, id) ==
    toNoArgVisit(IF v.suppressedCallbacks > 0
                 THEN [v EXCEPT !.suppressedCallbacks = @ - 1]
                 ELSE v,
                 id)

\* the next token that is not white space; comments are reported on the way
RECURSIVE visitScanNext(_)

\* v after a scan(): comments are reported and, like white space, skipped
visitScanned(v) ==
    IF getToken(v.scanner) \in {LineCommentTrivia, BlockCommentTrivia}
    THEN visitScanNext(toNoArgVisit(v, "onComment"))
    ELSE IF getToken(v.scanner) \in {Trivia, LineBreakTrivia}
    THEN visitScanNext(v)
    ELSE v

visitScanNext(v) == visitScanned([v EXCEPT !.scanner = scan(@)])

visitFailed(v) == [v EXCEPT !.failed = TRUE]

RECURSIVE parseValue(_, _)
RECURSIVE parseArrayItems(_, _, _)
RECURSIVE parseObjectProperties(_, _, _)

\* the items of an array up to its closing bracket
parseArrayItems(v, stops, needsComma) ==
    IF v.failed \/ getToken(v.scanner) = EOF THEN visitFailed(v)
    ELSE IF getToken(v.scanner) = CloseBracketToken
    THEN visitScanNext(toEndVisit(v, "onArrayEnd"))
    ELSE IF getToken(v.scanner) = CommaToken
    THEN IF needsComma
         THEN parseArrayItems(visitScanNext(toNoArgVisit(v, "onSeparator")),
                              stops, FALSE)
         ELSE visitFailed(v)
    ELSE IF needsComma THEN visitFailed(v)
    ELSE parseArrayItems(parseValue(v, stops), stops, TRUE)

\* the colon and the value of a property, v being after the property name
parsePropertyValue(v, stops) ==
    IF getToken(v.scanner) # ColonToken THEN visitFailed(v)
    ELSE parseValue(visitScanNext(toNoArgVisit(v, "onSeparator")), stops)

\* the properties of an object up to its closing brace
parseObjectProperties(v, stops, needsComma) ==
    IF v.failed \/ getToken(v.scanner) = EOF THEN visitFailed(v)
    ELSE IF getToken(v.scanner) = CloseBraceToken
    THEN visitScanNext(toEndVisit(v, "onObjectEnd"))
    ELSE IF getToken(v.scanner) = CommaToken
    THEN IF needsComma
         THEN parseObjectProperties(visitScanNext(toNoArgVisit(v, "onSeparator")),
                                    stops, FALSE)
         ELSE visitFailed(v)
    ELSE IF needsComma \/ getToken(v.scanner) # StringLiteral THEN visitFailed(v)
    ELSE parseObjectProperties(
             parsePropertyValue(visitScanNext(toNoArgVisit(v, "onObjectProperty")), stops),
             stops, TRUE)

parseValue(v, stops) ==
    IF v.failed THEN v
    ELSE IF getToken(v.scanner) = OpenBracketToken
    THEN parseArrayItems(visitScanNext(toBeginVisit(v, "onArrayBegin", stops)),
                         stops, FALSE)
    ELSE IF getToken(v.scanner) = OpenBraceToken
    THEN parseObjectProperties(visitScanNext(toBeginVisit(v, "onObjectBegin", stops)),
                               stops, FALSE)
    ELSE IF getToken(v.scanner) \in {StringLiteral, NumericLiteral, NullKeyword,
                                     TrueKeyword, FalseKeyword}
    THEN visitScanNext(toNoArgVisit(v, "onLiteralValue"))
    ELSE visitFailed(v)

\* the callbacks visit invokes on text, in order
visit(text, stops) == parseValue(visitScanNext(startVisit(text)), stops).actuals

-----------------------------------------------------------------------------
(* Specification SpecVisit: visit on a JSON document, with begin callbacks *)
(* that return false at some of the opening brackets.                      *)

VisitGaps ==
    { << << >> >>, << <<space>> >>,
      << << >>, <<slash, asterisk, asterisk, slash>>, <<lineFeed>> >> }

VisitTexts ==
    { WriteTokens(doc, pattern, 1) : doc \in JsonDocuments, pattern \in VisitGaps }

\* the offsets of the opening brackets of text
OpenOffsets(text) ==
    { p \in 0..(Len(text) - 1) : text[p + 1] \in {openBrace, openBracket} }

InitVisit ==
    /\ documentText \in VisitTexts
    /\ stopOffsets \in SUBSET OpenOffsets(documentText)
    /\ actuals = << >>
    /\ modifyPath = << >>
    /\ modifyValue = << >>
    /\ options = NoOptions
    /\ range = NoRange
    /\ editOperations = << >>
    /\ formatted = << >>
    /\ reformatted = << >>
    /\ scanner = createScanner(<< >>, FALSE)
    /\ scanned = << >>
    /\ pc = "visit"

\* visit(documentText, visitor)
Visit ==
    /\ pc = "visit"
    /\ actuals' = visit(documentText, stopOffsets)
    /\ pc' = "visited"
    /\ UNCHANGED << scanner, scanned, documentText, range, options, editOperations,
                    formatted, reformatted, modifyPath, modifyValue, stopOffsets >>

NextVisit == Visit

SpecVisit == InitVisit /\ [][NextVisit]_vars

Visited == pc = "visited"

\* the offset of the bracket that closes the container whose opening
\* bracket precedes offset p, depth - 1 containers being open inside it
RECURSIVE CloseFrom(_, _, _)
CloseFrom(text, p, depth) ==
    IF p >= Len(text) THEN Len(text)
    ELSE IF text[p + 1] \in {openBrace, openBracket}
    THEN CloseFrom(text, p + 1, depth + 1)
    ELSE IF text[p + 1] \in {closeBrace, closeBracket}
    THEN IF depth = 1 THEN p ELSE CloseFrom(text, p + 1, depth - 1)
    ELSE CloseFrom(text, p + 1, depth)

\* the offset of the closing bracket of the container opened at offset open
MatchingClose(text, open) == CloseFrom(text, open + 1, 1)

\* offset p lies inside a container whose begin callback returns false
InsideSkipped(p) ==
    \E open \in stopOffsets :
        open < p /\ p < MatchingClose(documentText, open)

EndCallbackOf(id) == IF id = "onObjectBegin" THEN "onObjectEnd" ELSE "onArrayEnd"

\* the callback of the token at index i of toks: a string before a colon is
\* a property name
CallbackIdOf(toks, i) ==
    LET kind == toks[i].kind
        rest == SelectTokens(SubSeq(toks, i + 1, Len(toks)), WalkedKinds \ TriviaKinds)
    IN  CASE kind = OpenBraceToken -> "onObjectBegin"
          [] kind = CloseBraceToken -> "onObjectEnd"
          [] kind = OpenBracketToken -> "onArrayBegin"
          [] kind = CloseBracketToken -> "onArrayEnd"
          [] kind \in {CommaToken, ColonToken} -> "onSeparator"
          [] kind \in {LineCommentTrivia, BlockCommentTrivia} -> "onComment"
          [] kind = StringLiteral /\ rest[1].kind = ColonToken -> "onObjectProperty"
          [] OTHER -> "onLiteralValue"

\* one callback for every token of text that is not white space
DocumentCallbacks(text) ==
    LET toks == AllTokens(text)
        all == [i \in DOMAIN toks |->
                  [ id |-> CallbackIdOf(toks, i),
                    offset |-> toks[i].offset,
                    length |-> toks[i].length,
                    kind |-> toks[i].kind ]]
        kept == SelectSeq(all, LAMBDA c : c.kind \notin {Trivia, LineBreakTrivia, EOF})
    IN  [i \in DOMAIN kept |->
           [id |-> kept[i].id, offset |-> kept[i].offset, length |-> kept[i].length]]

\* C26: when onObjectBegin or onArrayBegin returns false, no callback is
\* invoked for anything inside that container, the next callback is the
\* matching onObjectEnd or onArrayEnd at the container's own closing bracket,
\* and the callbacks for the rest of the document continue in order.
C26_SkippedSubtree ==
    Visited =>
        /\ \A k \in DOMAIN actuals :
              (/\ actuals[k].id \in {"onObjectBegin", "onArrayBegin"}
               /\ actuals[k].offset \in stopOffsets)
              => /\ k < Len(actuals)
                 /\ actuals[k + 1].id = EndCallbackOf(actuals[k].id)
                 /\ actuals[k + 1].offset =
                       MatchingClose(documentText, actuals[k].offset)
        /\ \A k \in DOMAIN actuals : ~InsideSkipped(actuals[k].offset)
        /\ actuals = SelectSeq(DocumentCallbacks(documentText),
                               LAMBDA c : ~InsideSkipped(c.offset))

\* C26 witness: the begin callback of a container inside another container
\* returned false, the container holds something, and callbacks were
\* invoked after its end callback.
C26_Witness ==
    /\ Visited
    /\ \E k \in DOMAIN actuals :
          /\ k > 1
          /\ k + 1 < Len(actuals)
          /\ actuals[k].id \in {"onObjectBegin", "onArrayBegin"}
          /\ actuals[k].offset \in stopOffsets
          /\ actuals[k + 1].offset > actuals[k].offset + 1

====
